---- MODULE Spec2Model ----
(***************************************************************************)
(* State-machine model of hx711-multi (src/src/hx711_multi/hx711.py):      *)
(* class HX711 (construction, shared clock line, frame read, batch read,   *)
(* zero, read_weight) and class ADC (one channel: readiness flag, shift    *)
(* register, read history, reduction, zero offset).                        *)
(*                                                                         *)
(* Conventions                                                             *)
(*   - Python None is the empty tuple, a present value v is <<v>>.         *)
(*   - measurement, offsets and weights are exact rationals <<num, den>>   *)
(*     in lowest terms with den > 0 (Python int/float results compare by   *)
(*     numeric value; binary rounding of floats is not modelled).          *)
(*   - times of a clock pulse are in microseconds.                         *)
(***************************************************************************)
EXTENDS Integers, Sequences, FiniteSets, TLC

VARIABLES
    \* HX711 configuration (constructor arguments as stored, and the mode given
    \* to each GPIO line by _init_gpio; fixed afterwards)
    all_or_nothing, channel_A_gain, channel_select, dout_pins,
    single_adc, sck_pin, gpio_mode,
    \* per-ADC fields, functions over the ADC indices
    ready, current_raw_read, raw_reads, reads,
    measurement, measurement_from_zero, weight, zero_offset, weight_multiple,
    \* position of the (single) thread of control
    op, pc, readings_to_average, frame_no, poll_i, bit_no, trailer_no,
    \* GPIO level of the clock line and value returned by the last _read
    sck, result,
    \* observations of the frame / batch in progress (not program state);
    \* warned: the last read_raw logged "All ADC measurements failed";
    \* events: what the public call in progress (or the last one made) has done
    \* outside _read, in order: GPIO.setup of a line, GPIO.output on the clock
    \* line, a call of _read, a sleep;
    \* poll_in: what ADC._is_ready did with the data line of every ADC in the
    \* last iteration of the poll in progress ("not_read", or the level it
    \* read: "low", "high");
    \* samples: the levels ADC._shift_and_read has read from the data line of
    \* every ADC in the data pulses of the frame in progress, in order
    pulse_log, slow, len0, ever_ready, reduced, warned, events, poll_in, samples,
    \* the public calls: the arguments of the constructor, the exception the
    \* last public call raised ("none" if it returned or is in progress), the
    \* value it returned (None before it returns and for a call that returns
    \* None), the arguments of set_weight_multiples when it is the last call
    \* made (None otherwise)
    args, raised, returned, swm,
    \* zero: the retry_limit, loop counter and merged readings; offset0 and
    \* attempts observe zero: the zero_offset of every ADC when zero was called
    \* and what each read_raw of zero left in every ADC; zero_raised: the
    \* exception the last zero raised ("none" if none)
    retry_limit, zero_try, readings, offset0, attempts, zero_raised

cfg_vars == <<all_or_nothing, channel_A_gain, channel_select, dout_pins,
              single_adc, sck_pin, gpio_mode>>
adc_vars == <<ready, current_raw_read, raw_reads, reads,
              measurement, measurement_from_zero, weight, zero_offset, weight_multiple>>
ctl_vars == <<op, pc, readings_to_average, frame_no, poll_i, bit_no, trailer_no>>
obs_vars == <<pulse_log, slow, len0, ever_ready, reduced, warned, events,
              poll_in, samples>>
zero_vars == <<retry_limit, zero_try, readings, offset0, attempts, zero_raised>>
call_vars == <<args, raised, returned, swm, zero_vars>>
vars == <<cfg_vars, adc_vars, ctl_vars, sck, result, obs_vars, call_vars>>

----------------------------------------------------------------------------
(* Bounds of the model *)

\* largest readings_to_average a caller passes to read_raw
MaxReadings == 2

\* constructor inputs: lists of data pins (one ADC, two ADCs)
PinLists == {<<5>>, <<5, 6>>}

\* elapsed times a clock pulse can measure, in microseconds
PulseTimes == {1, 59, 60, 61}

\* 24-bit words a chip can shift out during a frame: the valid 0x000001 and
\* the invalid 0x7FFFFF
Words == {1, 8388607}

\* SpecDecode: raw values within DecodeSpan of 0, of 0x800000 and of 0xFFFFFF
DecodeSpan == 4

\* SpecReduce: number of frames of the batch that is reduced, and the values
\* its decoded reads are drawn from (None is an invalid frame)
ReduceLen == 5
ReduceValues == {<<9>>, <<10>>, <<11>>, <<100>>, <<1000>>, <<>>}

----------------------------------------------------------------------------
(* Program constants *)

PollLimit == 20            \* for i in range(20)
DataBits == 24             \* for _ in range(24)
PowerDownMicros == 60      \* pulse_end - pulse_start >= 0.00006
MinReadings == 1           \* 1 <= readings_to_average
ReadingsLimit == 10000     \* readings_to_average <= 10000
RawMin == 8388608          \* 0x800000
RawMax == 8388607          \* 0x7FFFFF
RawOnes == 16777215        \* 0xFFFFFF / 0xffffff
SignBit == 8388608         \* 0x800000 in (raw_value & 0x800000)
max_stdev == 100           \* self._max_stdev
max_number_of_stdev_from_med == 2   \* self._max_number_of_stdev_from_med = 2.0

----------------------------------------------------------------------------
(* Values *)

None == <<>>
Some(v) == <<v>>

ADCs == 1..Len(dout_pins)

RECURSIVE Gcd(_, _)
Gcd(a, b) == IF b = 0 THEN a ELSE Gcd(b, a % b)

Abs(x) == IF x < 0 THEN -x ELSE x

\* the rational n/d in lowest terms, d # 0
Rat(n, d) ==
    LET g == Gcd(Abs(n), Abs(d))
        s == IF d < 0 THEN -1 ELSE 1
    IN  <<(s * n) \div g, (s * d) \div g>>

RatSub(a, b) == Rat(a[1] * b[2] - b[1] * a[2], a[2] * b[2])
RatDiv(a, b) == Rat(a[1] * b[2], a[2] * b[1])

\* bitwise operators on non-negative integers of w bits
RECURSIVE BitXor(_, _, _)
BitXor(a, b, w) ==
    IF w = 0 THEN 0
    ELSE (((a % 2) + (b % 2)) % 2) + (2 * BitXor(a \div 2, b \div 2, w - 1))

RECURSIVE BitAnd(_, _, _)
BitAnd(a, b, w) ==
    IF w = 0 THEN 0
    ELSE ((a % 2) * (b % 2)) + (2 * BitAnd(a \div 2, b \div 2, w - 1))

RECURSIVE Pow2(_)
Pow2(n) == IF n = 0 THEN 1 ELSE 2 * Pow2(n - 1)

\* the n low bits of v, the most significant first
bits_of(v, n) == [k \in 1..n |-> (v \div Pow2(n - k)) % 2]

\* the number whose binary digits are the sequence b, the most significant first
RECURSIVE value_of(_)
value_of(b) ==
    IF b = <<>> THEN 0
    ELSE (2 * value_of(SubSeq(b, 1, Len(b) - 1))) + b[Len(b)]

----------------------------------------------------------------------------
(* class ADC *)

\* fault variant of convert_to_signed_value: one's complement (the "+ 1" lost)
convert_to_signed_value_ones(raw_value) ==
    IF raw_value \in {RawMin, RawMax, RawOnes}
    THEN None
    ELSE IF BitAnd(raw_value, SignBit, DataBits) # 0
         THEN Some(-BitXor(raw_value, RawOnes, DataBits))
         ELSE Some(raw_value)

\* ADC.convert_to_signed_value
convert_to_signed_value(raw_value) ==
    IF raw_value \in {RawMin, RawMax, RawOnes}
    THEN None
    ELSE IF BitAnd(raw_value, SignBit, DataBits) # 0
         THEN Some(-(BitXor(raw_value, RawOnes, DataBits) + 1))
         ELSE Some(raw_value)

----------------------------------------------------------------------------
(* class HX711 *)

\* fault variant of num_pulses: the counts of (A, 64) and of channel B exchanged
num_pulses_swapped ==
    IF channel_select = "A" /\ channel_A_gain = 128 THEN 1
    ELSE IF channel_select = "A" /\ channel_A_gain = 64 THEN 2
    ELSE 3

\* num_pulses of HX711._write_channel_gain
num_pulses ==
    IF channel_select = "A" /\ channel_A_gain = 128 THEN 1
    ELSE IF channel_select = "A" /\ channel_A_gain = 64 THEN 3
    ELSE 2

\* fault variant of pulse_sck_high: ">" in place of ">="
pulse_sck_high_strict(elapsed) == ~(elapsed > PowerDownMicros)

\* fault variant of pulse_sck_high: the elapsed time is not looked at
pulse_sck_high_unchecked(elapsed) == TRUE

\* HX711._pulse_sck_high: the value returned for a measured elapsed time
pulse_sck_high(elapsed) == ~(elapsed >= PowerDownMicros)

----------------------------------------------------------------------------
(* ADC._calculate_measurement *)

RECURSIVE SumSeq(_)
SumSeq(s) == IF s = <<>> THEN 0 ELSE Head(s) + SumSeq(Tail(s))

RECURSIVE InsertSorted(_, _)
InsertSorted(x, s) ==
    IF s = <<>> THEN <<x>>
    ELSE IF x <= Head(s) THEN <<x>> \o s
    ELSE <<Head(s)>> \o InsertSorted(x, Tail(s))

RECURSIVE sorted(_)
sorted(s) == IF s = <<>> THEN <<>> ELSE InsertSorted(Head(s), sorted(Tail(s)))

\* [r for r in self.reads if (r is not None) and (type(r) is int)]
valid_reads(rd) ==
    LET kept == SelectSeq(rd, LAMBDA r : r # None)
    IN  [k \in 1..Len(kept) |-> kept[k][1]]

\* twice statistics.median(s), an integer (s is not empty)
median2(s) ==
    LET t == sorted(s)
        n == Len(t)
    IN  IF n % 2 = 1 THEN 2 * t[(n + 1) \div 2]
        ELSE t[n \div 2] + t[(n \div 2) + 1]

\* twice self._devs_from_med
devs2_from_med(s) ==
    LET m2 == median2(s)
    IN  [k \in 1..Len(s) |-> Abs((2 * s[k]) - m2)]

\* n*(n-1)*4*variance of the deviations: with d = twice the deviations,
\* stdev(devs)^2 = (n*sum(d^2) - sum(d)^2) / (4*n*(n-1))
spread(d) ==
    LET n == Len(d)
    IN  (n * SumSeq([k \in 1..n |-> d[k] * d[k]])) - (SumSeq(d) * SumSeq(d))

\* fault variant of stdev_over_max: a maximum ten times as large
stdev_over_max_tenfold(d) ==
    spread(d) > 4 * Len(d) * (Len(d) - 1) * (10 * max_stdev) * (10 * max_stdev)

\* self._read_stdev > self._max_stdev
stdev_over_max(d) ==
    spread(d) > 4 * Len(d) * (Len(d) - 1) * max_stdev * max_stdev

\* fault variant of ratio_within: three standard deviations allowed
ratio_within_3(d, k) ==
    d[k] * d[k] * Len(d) * (Len(d) - 1) <= 9 * spread(d)

\* fault variant of ratio_within: the comparison reversed, ">=" for "<="
ratio_within_reversed(d, k) ==
    d[k] * d[k] * Len(d) * (Len(d) - 1)
        >= max_number_of_stdev_from_med * max_number_of_stdev_from_med * spread(d)

\* (dev / self._read_stdev) <= self._max_number_of_stdev_from_med, stdev # 0
ratio_within(d, k) ==
    d[k] * d[k] * Len(d) * (Len(d) - 1)
        <= max_number_of_stdev_from_med * max_number_of_stdev_from_med * spread(d)

\* the reads kept by the loop over zip(self._reads_filtered, self._ratios_to_stdev);
\* _ratios_to_stdev is [] on entry (_init_set_of_reads) and stays [] when the
\* standard deviation is over the maximum, so the zip is empty then
new_reads_filtered(s) ==
    LET d == devs2_from_med(s)
        keep(k) == ~stdev_over_max(d) /\ ratio_within(d, k)
        RECURSIVE build(_)
        build(k) ==
            IF k > Len(s) THEN <<>>
            ELSE (IF keep(k) THEN <<s[k]>> ELSE <<>>) \o build(k + 1)
    IN  build(1)

\* fault variant of calculate_measurement: an empty filtered set is given the
\* measurement 0, any other the first valid read
calculate_measurement_first_read(a) ==
    LET f == valid_reads(a.reads) IN
    IF Len(f) = 0 THEN [a EXCEPT !.measurement = Some(Rat(0, 1))]
    ELSE [a EXCEPT !.measurement = Some(Rat(f[1], 1))]

\* ADC._calculate_measurement on one ADC: the fields it leaves
calculate_measurement(a) ==
    LET f == valid_reads(a.reads) IN
    IF Len(f) = 0 THEN a
    ELSE IF Len(f) = 1 THEN [a EXCEPT !.measurement = Some(Rat(f[1], 1))]
    ELSE LET d == devs2_from_med(f)
             over == stdev_over_max(d)
             b == [a EXCEPT !.ready = IF over THEN FALSE ELSE a.ready]
         IN  IF ~over /\ spread(d) = 0
             THEN [a EXCEPT !.measurement = Some(Rat(median2(f), 2))]
             ELSE LET g == new_reads_filtered(f) IN
                  IF Len(g) = 0 THEN b
                  ELSE LET m == Rat(SumSeq(g), Len(g))
                           mz == RatSub(m, a.zero_offset)
                       IN  [b EXCEPT !.measurement = Some(m),
                                     !.measurement_from_zero = Some(mz),
                                     !.weight = Some(RatDiv(mz, a.weight_multiple))]

\* the boolean ADC._calculate_measurement returns
calculate_measurement_returns(a) ==
    LET f == valid_reads(a.reads) IN
    IF Len(f) = 0 THEN FALSE
    ELSE IF Len(f) = 1 THEN TRUE
    ELSE LET d == devs2_from_med(f) IN
         IF ~stdev_over_max(d) /\ spread(d) = 0 THEN TRUE
         ELSE Len(new_reads_filtered(f)) > 0

\* the fields of ADC c that _calculate_measurement reads or writes
adc_record(c) ==
    [reads |-> reads[c], ready |-> ready[c],
     measurement |-> measurement[c],
     measurement_from_zero |-> measurement_from_zero[c],
     weight |-> weight[c],
     zero_offset |-> zero_offset[c], weight_multiple |-> weight_multiple[c]]

----------------------------------------------------------------------------
(* Constructor arguments and HX711.__init__ up to the construction read *)

\* an argument value with its Python type: type(True) is bool, not int
IntArg(v) == [type |-> "int", value |-> v]
BoolArg(v) == [type |-> "bool", value |-> v]

\* the dout_pins argument: a list of values or one bare value
ListArg(s) == [form |-> "list", items |-> s]
BareArg(x) == [form |-> "bare", items |-> <<x>>]

\* fault variant of convert_to_list: isinstance(x, int) in place of
\* type(x) is int, which a bool passes too
convert_to_list_isinstance(input) ==
    Some([k \in DOMAIN input.items |-> input.items[k].value])

\* utils.convert_to_list(input, _type=int, _default_output=None): None, or the
\* list of the int values
convert_to_list(input) ==
    IF input.form = "list"
    THEN IF \A k \in DOMAIN input.items : input.items[k].type = "int"
         THEN Some([k \in DOMAIN input.items |-> input.items[k].value])
         ELSE None
    ELSE IF input.items[1].type = "int"
         THEN Some(<<input.items[1].value>>)
         ELSE None

\* the GPIO lines the model knows, and the mode of each before GPIO.setup
Pins == {4, 5, 6}
NoSetup == [p \in Pins |-> "unset"]

\* HX711._init_gpio: GPIO.setup(sck, OUT), then GPIO.setup(dout, IN) in list order
init_gpio(sck_line, douts) ==
    [p \in Pins |-> IF \E k \in DOMAIN douts : douts[k] = p THEN "IN"
                    ELSE IF p = sck_line THEN "OUT"
                    ELSE "unset"]

\* no data line has been read in a poll or after a data pulse
NoInput ==
    /\ poll_in = [c \in ADCs |-> "not_read"]
    /\ samples = [c \in ADCs |-> <<>>]

\* the events of HX711._init_gpio, in its order
gpio_events(douts) == <<"setup_out">> \o [k \in 1..Len(douts) |-> "setup_in"]

----------------------------------------------------------------------------
(* Initial state: inside HX711.__init__, after _init_gpio and _init_adcs,    *)
(* about to perform the read that sets channel and gain                     *)

\* no call of zero has been made and no exception raised
CallIdle ==
    /\ raised = "none"
    /\ returned = None
    /\ swm = None
    /\ zero_raised = "none"
    /\ retry_limit = 0
    /\ zero_try = 0
    /\ readings = None
    /\ offset0 = [c \in ADCs |-> Rat(0, 1)]
    /\ attempts = <<>>

\* the fields set by ADC.__init__, and the position of __init__ at self._read()
Constructed ==
    /\ ready = [c \in ADCs |-> FALSE]
    /\ current_raw_read = [c \in ADCs |-> 0]
    /\ raw_reads = [c \in ADCs |-> <<>>]
    /\ reads = [c \in ADCs |-> <<>>]
    /\ measurement = [c \in ADCs |-> None]
    /\ measurement_from_zero = [c \in ADCs |-> None]
    /\ weight = [c \in ADCs |-> None]
    /\ zero_offset = [c \in ADCs |-> Rat(0, 1)]
    /\ weight_multiple = [c \in ADCs |-> Rat(1, 1)]
    /\ op = "construct"
    /\ pc = "read"
    /\ readings_to_average = 0
    /\ frame_no = 0
    /\ poll_i = 0
    /\ bit_no = 0
    /\ trailer_no = 0
    /\ sck = None
    /\ result = None
    /\ pulse_log = <<>>
    /\ slow = FALSE
    /\ len0 = [c \in ADCs |-> 0]
    /\ ever_ready = [c \in ADCs |-> FALSE]
    /\ reduced = [c \in ADCs |-> FALSE]
    /\ warned = FALSE
    /\ NoInput
    /\ events = gpio_events(dout_pins)
    /\ CallIdle

\* the arguments from which __init__ stored the configuration, for a list of
\* int pins
ArgsOfConfig ==
    /\ args = [dout_pins |-> ListArg([k \in DOMAIN dout_pins |-> IntArg(dout_pins[k])]),
               sck_pin |-> IntArg(sck_pin),
               channel_A_gain |-> channel_A_gain,
               channel_select |-> channel_select,
               all_or_nothing |-> all_or_nothing]
    /\ single_adc = FALSE
    /\ gpio_mode = init_gpio(sck_pin, dout_pins)

Init ==
    /\ all_or_nothing \in BOOLEAN
    /\ channel_A_gain \in {128, 64}
    /\ channel_select \in {"A", "B"}
    /\ dout_pins \in PinLists
    /\ sck_pin = 4
    /\ ArgsOfConfig
    /\ Constructed

----------------------------------------------------------------------------
(* HX711._read, one action per step of its loops *)

\* _read whose _init_raw_read leaves _ready as it was (fault variant)
read_begin_ready_kept ==
    /\ pc = "read"
    /\ ready' = ready
    /\ current_raw_read' = [c \in ADCs |-> 0]
    /\ sck' = Some(0)
    /\ poll_i' = 0
    /\ pc' = "poll"
    /\ result' = None
    /\ pulse_log' = <<>>
    /\ slow' = FALSE
    /\ len0' = [c \in ADCs |-> Len(raw_reads[c])]
    /\ events' = Append(events, "read")
    /\ poll_in' = [c \in ADCs |-> "not_read"]
    /\ samples' = [c \in ADCs |-> <<>>]
    /\ UNCHANGED <<cfg_vars, call_vars, raw_reads, reads, measurement, measurement_from_zero,
                   weight, zero_offset, weight_multiple, op, readings_to_average,
                   frame_no, bit_no, trailer_no, ever_ready, reduced, warned>>

\* _read: adc._init_raw_read() for every ADC, then _prepare_to_read drives SCK low
read_begin ==
    /\ pc = "read"
    /\ ready' = [c \in ADCs |-> FALSE]
    /\ current_raw_read' = [c \in ADCs |-> 0]
    /\ sck' = Some(0)
    /\ poll_i' = 0
    /\ pc' = "poll"
    /\ result' = None
    /\ pulse_log' = <<>>
    /\ slow' = FALSE
    /\ len0' = [c \in ADCs |-> Len(raw_reads[c])]
    /\ events' = Append(events, "read")
    /\ poll_in' = [c \in ADCs |-> "not_read"]
    /\ samples' = [c \in ADCs |-> <<>>]
    /\ UNCHANGED <<cfg_vars, call_vars, raw_reads, reads, measurement, measurement_from_zero,
                   weight, zero_offset, weight_multiple, op, readings_to_average,
                   frame_no, bit_no, trailer_no, ever_ready, reduced, warned>>

\* an _is_ready that reads the data line whether the ADC is ready or not
\* (fault variant)
is_ready_input_always(c, low) == IF low THEN "low" ELSE "high"

\* ADC._is_ready of ADC c: an ADC that is ready returns True without reading
\* its data line; any other reads it, and is ready if the level is low
is_ready_input(c, low) ==
    IF ready[c] THEN "not_read" ELSE IF low THEN "low" ELSE "high"

\* a poll that runs all its iterations, without the break (fault variant)
poll_stops_at_limit(now, i) == i + 1 = PollLimit

\* _prepare_to_read: iteration i (from 0) is the last one if every ADC is ready
\* after it ("break") or if it is the last of range(20)
poll_stops(now, i) == (\A c \in ADCs : now[c]) \/ i + 1 = PollLimit

\* one iteration of "for i in range(20)" in _prepare_to_read: ADC._is_ready of
\* every ADC (an ADC that is not ready reads its data pin: low or high)
prepare_to_read_iter ==
    /\ pc = "poll"
    /\ \E low \in SUBSET {c \in ADCs : ~ready[c]} :
         LET now == [c \in ADCs |-> ready[c] \/ c \in low] IN
         /\ ready' = now
         /\ poll_in' = [c \in ADCs |-> is_ready_input(c, c \in low)]
         /\ ever_ready' = [c \in ADCs |-> ever_ready[c] \/ now[c]]
         /\ IF poll_stops(now, poll_i)
            THEN pc' = "polled" /\ poll_i' = 0
            ELSE pc' = "poll" /\ poll_i' = poll_i + 1
    /\ UNCHANGED <<cfg_vars, call_vars, current_raw_read, raw_reads, reads, measurement,
                   measurement_from_zero, weight, zero_offset, weight_multiple,
                   op, readings_to_average, frame_no, bit_no, trailer_no,
                   sck, result, pulse_log, slow, len0, reduced, warned, events, samples>>

\* fault variant of prepare_to_read_result: any() in place of all()
prepare_to_read_any == \E c \in ADCs : ready[c]

\* the value _prepare_to_read returns
prepare_to_read_result == \A c \in ADCs : ready[c]

\* fault variant of read_aborted: "or" in place of "and"
read_aborted_either(prepared, policy) == ~prepared \/ policy

\* _read: the frame is given up after the poll if
\* "not self._prepare_to_read() and self._all_or_nothing", for the value
\* _prepare_to_read returned and the policy of the driver
read_aborted(prepared, policy) == ~prepared /\ policy

\* _read: "if not self._prepare_to_read() and self._all_or_nothing: return False"
read_after_prepare ==
    /\ pc = "polled"
    /\ IF read_aborted(prepare_to_read_result, all_or_nothing)
       THEN result' = Some(FALSE) /\ pc' = "read_done"
       ELSE result' = result /\ pc' = "data"
    /\ bit_no' = 0
    /\ poll_in' = [c \in ADCs |-> "not_read"]
    /\ UNCHANGED <<cfg_vars, call_vars, adc_vars, op, readings_to_average, frame_no, poll_i,
                   trailer_no, sck, pulse_log, slow, len0, ever_ready,
                   reduced, warned, events, samples>>

\* the accumulator after ADC._shift_and_read reads bit b
shift_and_read(acc, b) == (2 * acc) + b

\* the bits the data pins can show after pulse k (1..24): those that keep every
\* ready ADC's accumulator a prefix of one of Words
line_bits(k) ==
    {b \in [ADCs -> {0, 1}] :
        \A c \in ADCs :
            IF ready[c]
            THEN \E w \in Words :
                    w \div Pow2(DataBits - k) = shift_and_read(current_raw_read[c], b[c])
            ELSE b[c] = 0}

\* a data loop that calls _shift_and_read for every ADC, ready or not
\* (fault variant)
read_bit_unconditional(c, b) ==
    [current_raw_read |-> shift_and_read(current_raw_read[c], b),
     samples |-> Append(samples[c], b)]

\* _read: "if adc._ready: adc._shift_and_read()" for ADC c whose data line
\* shows the level b: the accumulator and the levels read so far
read_bit(c, b) ==
    IF ready[c]
    THEN [current_raw_read |-> shift_and_read(current_raw_read[c], b),
          samples |-> Append(samples[c], b)]
    ELSE [current_raw_read |-> current_raw_read[c], samples |-> samples[c]]

\* one iteration of "for _ in range(24)": a clock pulse, then every ready ADC
\* shifts in the level of its data pin
read_data_pulse ==
    /\ pc = "data"
    /\ \E elapsed \in PulseTimes :
         /\ pulse_log' = Append(pulse_log, "data")
         /\ slow' = (slow \/ elapsed >= PowerDownMicros)
         /\ IF ~pulse_sck_high(elapsed)
            THEN /\ result' = Some(FALSE)
                 /\ pc' = "read_done"
                 /\ bit_no' = 0
                 /\ samples' = [c \in ADCs |-> <<>>]
                 /\ UNCHANGED current_raw_read
            ELSE /\ \E b \in line_bits(bit_no + 1) :
                      /\ current_raw_read' =
                             [c \in ADCs |-> read_bit(c, b[c]).current_raw_read]
                      /\ samples' = [c \in ADCs |-> read_bit(c, b[c]).samples]
                 /\ result' = result
                 /\ IF bit_no + 1 = DataBits
                    THEN pc' = "finish" /\ bit_no' = 0
                    ELSE pc' = "data" /\ bit_no' = bit_no + 1
    /\ sck' = Some(0)
    /\ UNCHANGED <<cfg_vars, call_vars, ready, raw_reads, reads, measurement,
                   measurement_from_zero, weight, zero_offset, weight_multiple,
                   op, readings_to_average, frame_no, poll_i, trailer_no,
                   len0, ever_ready, reduced, warned, events, poll_in>>

\* fault variant of finish_raw_read: the signed value is not appended to reads
finish_raw_read_undecoded(c) ==
    [raw_reads |-> Append(raw_reads[c], current_raw_read[c]),
     reads |-> reads[c]]

\* fault variant of finish_raw_read: the raw value is appended to reads as it is
finish_raw_read_unsigned(c) ==
    [raw_reads |-> Append(raw_reads[c], current_raw_read[c]),
     reads |-> Append(reads[c], Some(current_raw_read[c]))]

\* ADC._finish_raw_read: the raw_reads and reads of an ADC after the append
finish_raw_read(c) ==
    [raw_reads |-> Append(raw_reads[c], current_raw_read[c]),
     reads |-> Append(reads[c], convert_to_signed_value(current_raw_read[c]))]

\* _read: "for adc in self._adcs: if adc._ready: adc._finish_raw_read()"
read_finish ==
    /\ pc = "finish"
    /\ raw_reads' = [c \in ADCs |-> IF ready[c] THEN finish_raw_read(c).raw_reads
                                    ELSE raw_reads[c]]
    /\ reads' = [c \in ADCs |-> IF ready[c] THEN finish_raw_read(c).reads
                                ELSE reads[c]]
    /\ pc' = "trailer"
    /\ trailer_no' = 0
    /\ samples' = [c \in ADCs |-> <<>>]
    /\ UNCHANGED <<cfg_vars, call_vars, ready, current_raw_read, measurement,
                   measurement_from_zero, weight, zero_offset, weight_multiple,
                   op, readings_to_average, frame_no, poll_i, bit_no,
                   sck, result, pulse_log, slow, len0, ever_ready, reduced,
                   warned, events, poll_in>>

\* one iteration of "for _ in range(num_pulses)" in _write_channel_gain, and the
\* return of _read after it
write_channel_gain_pulse ==
    /\ pc = "trailer"
    /\ trailer_no < num_pulses
    /\ \E elapsed \in PulseTimes :
         /\ pulse_log' = Append(pulse_log, "trailer")
         /\ slow' = (slow \/ elapsed >= PowerDownMicros)
         /\ IF ~pulse_sck_high(elapsed)
            THEN result' = Some(FALSE) /\ pc' = "read_done" /\ trailer_no' = 0
            ELSE IF trailer_no + 1 = num_pulses
                 THEN result' = Some(TRUE) /\ pc' = "read_done" /\ trailer_no' = 0
                 ELSE result' = result /\ pc' = "trailer" /\ trailer_no' = trailer_no + 1
    /\ sck' = Some(0)
    /\ UNCHANGED <<cfg_vars, call_vars, adc_vars, op, readings_to_average, frame_no, poll_i,
                   bit_no, len0, ever_ready, reduced, warned, events, poll_in, samples>>

----------------------------------------------------------------------------
(* Callers of _read *)

\* __init__ after self._read(): sleep(0.4), the driver is returned
construct_return ==
    /\ pc = "read_done"
    /\ op = "construct"
    /\ events' = Append(events, "sleep_400ms")
    /\ pc' = "idle"
    /\ UNCHANGED <<cfg_vars, call_vars, adc_vars, op, readings_to_average, frame_no, poll_i,
                   bit_no, trailer_no, sck, result, pulse_log, slow, len0,
                   ever_ready, reduced, warned, poll_in, samples>>

\* the readings_to_average arguments: the batch sizes of the model, and one
\* value on either side of the accepted range
ReadingsArgs == (MinReadings..MaxReadings) \cup {MinReadings - 1, ReadingsLimit + 1}

\* fault variant of readings_in_range: only the upper limit is tested
readings_in_range_upper_only(n) == n <= ReadingsLimit

\* read_raw, read_weight: "1 <= readings_to_average <= 10000"
readings_in_range(n) == MinReadings <= n /\ n <= ReadingsLimit

\* read_raw called with a readings_to_average in range: ADC._init_set_of_reads
\* of every ADC, then the first _read
read_raw_call ==
    /\ pc = "idle"
    /\ \E n \in ReadingsArgs :
          /\ readings_in_range(n)
          /\ readings_to_average' = n
          /\ pc' = IF n > 0 THEN "read" ELSE "reduce"
    /\ op' = "read_raw"
    /\ raw_reads' = [c \in ADCs |-> <<>>]
    /\ reads' = [c \in ADCs |-> <<>>]
    /\ measurement' = [c \in ADCs |-> None]
    /\ measurement_from_zero' = [c \in ADCs |-> None]
    /\ ready' = [c \in ADCs |-> FALSE]
    /\ current_raw_read' = [c \in ADCs |-> 0]
    /\ frame_no' = 0
    /\ ever_ready' = [c \in ADCs |-> FALSE]
    /\ reduced' = [c \in ADCs |-> FALSE]
    /\ warned' = FALSE
    /\ events' = <<>>
    /\ raised' = "none"
    /\ returned' = None
    /\ UNCHANGED <<cfg_vars, args, swm, zero_vars, weight, zero_offset, weight_multiple,
                   poll_i, bit_no, trailer_no, sck, result, pulse_log, slow, len0,
                   poll_in, samples>>

\* read_raw or read_weight called with a readings_to_average out of range:
\* the first statement raises ValueError (in read_weight before use_prev_read is
\* looked at)
readings_rejected ==
    /\ pc = "idle"
    /\ \E n \in ReadingsArgs :
          /\ ~readings_in_range(n)
          /\ readings_to_average' = n
    /\ \E o \in {"read_raw", "read_weight"} : op' = o
    /\ raised' = "ValueError"
    /\ returned' = None
    /\ events' = <<>>
    /\ swm' = None
    /\ UNCHANGED <<cfg_vars, adc_vars, args, zero_vars, pc, frame_no, poll_i, bit_no,
                   trailer_no, sck, result, pulse_log, slow, len0, ever_ready,
                   reduced, warned, poll_in, samples>>

\* read_raw left by an exception raised between two frames (a KeyboardInterrupt
\* in the loop over self._read()): the ADCs stay as the last frame left them
read_raw_interrupted ==
    /\ pc = "read_done"
    /\ op = "read_raw"
    /\ frame_no + 1 < readings_to_average
    /\ pc' = "idle"
    /\ raised' = "KeyboardInterrupt"
    /\ UNCHANGED <<cfg_vars, adc_vars, args, returned, swm, zero_vars, op,
                   readings_to_average, frame_no, poll_i, bit_no, trailer_no, sck,
                   result, obs_vars>>

\* read_raw: "for _ in range(readings_to_average): self._read()", the value
\* _read returned is dropped
read_raw_next ==
    /\ pc = "read_done"
    /\ op = "read_raw"
    /\ frame_no' = frame_no + 1
    /\ pc' = IF frame_no + 1 < readings_to_average THEN "read" ELSE "reduce"
    /\ UNCHANGED <<cfg_vars, call_vars, adc_vars, op, readings_to_average, poll_i, bit_no,
                   trailer_no, sck, result, obs_vars>>

\* fault variant of all_failed: any() in place of all()
all_failed_any(ms) == \E c \in DOMAIN ms : ms[c] = None

\* read_raw: "not adc_measurements or all(x is None for x in adc_measurements)"
all_failed(ms) == \A c \in DOMAIN ms : ms[c] = None

\* read_raw, read_weight: "adc_measurements[0] if self._single_adc else
\* adc_measurements" (and the same for adc_weights)
unwrap(values) == IF single_adc THEN values[1] ELSE values

\* read_raw: "for adc in self._adcs: if adc._ready: adc._calculate_measurement()",
\* then the warning if every measurement failed, and the list of
\* measurement_from_zero is returned (to the caller, to zero or to read_weight)
read_raw_reduce ==
    /\ pc = "reduce"
    /\ LET after == [c \in ADCs |-> IF ready[c] THEN calculate_measurement(adc_record(c))
                                    ELSE adc_record(c)]
       IN  /\ ready' = [c \in ADCs |-> after[c].ready]
           /\ measurement' = [c \in ADCs |-> after[c].measurement]
           /\ measurement_from_zero' = [c \in ADCs |-> after[c].measurement_from_zero]
           /\ weight' = [c \in ADCs |-> after[c].weight]
           /\ warned' = all_failed([c \in ADCs |-> after[c].measurement_from_zero])
           /\ returned' =
                 IF op = "zero" THEN returned
                 ELSE Some(unwrap([c \in ADCs |-> IF op = "read_weight"
                                                  THEN after[c].weight
                                                  ELSE after[c].measurement_from_zero]))
    /\ reduced' = ready
    /\ pc' = IF op = "zero" THEN "zero_merge" ELSE "idle"
    /\ UNCHANGED <<cfg_vars, args, raised, swm, zero_vars, current_raw_read, raw_reads,
                   reads, zero_offset, weight_multiple, op, readings_to_average,
                   frame_no, poll_i, bit_no, trailer_no, sck, result, pulse_log,
                   slow, len0, ever_ready, events, poll_in, samples>>

\* the value read_raw returned (before the single-ADC unwrapping)
adc_measurements == [c \in ADCs |-> measurement_from_zero[c]]

----------------------------------------------------------------------------
(* power_down, power_up and reset, on a driver that has been constructed and  *)
(* on which no batch has run                                                 *)

\* power_down: GPIO.output(sck, False), GPIO.output(sck, True), sleep(0.01)
power_down ==
    /\ pc = "idle"
    /\ op = "construct"
    /\ op' = "power_down"
    /\ sck' = Some(1)
    /\ events' = <<"sck_low", "sck_high", "sleep_10ms">>
    /\ raised' = "none"
    /\ returned' = None
    /\ swm' = None
    /\ UNCHANGED <<cfg_vars, adc_vars, args, zero_vars, pc, readings_to_average,
                   frame_no, poll_i, bit_no, trailer_no, result, pulse_log, slow,
                   len0, ever_ready, reduced, warned, poll_in, samples>>

\* power_up called (on the new driver or after power_down):
\* GPIO.output(sck, False), then "result = self._read()" is entered
power_up_call ==
    /\ pc = "idle"
    /\ op \in {"construct", "power_down"}
    /\ op' = "power_up"
    /\ sck' = Some(0)
    /\ events' = <<"sck_low">>
    /\ pc' = "read"
    /\ raised' = "none"
    /\ returned' = None
    /\ swm' = None
    /\ UNCHANGED <<cfg_vars, adc_vars, args, zero_vars, readings_to_average,
                   frame_no, poll_i, bit_no, trailer_no, result, pulse_log, slow,
                   len0, ever_ready, reduced, warned, poll_in, samples>>

\* a reset that builds the ADC objects anew, as __init__ does (fault variant)
reset_call_init_adcs ==
    /\ pc = "idle"
    /\ op = "construct"
    /\ op' = "reset"
    /\ sck' = Some(0)
    /\ events' = <<"sck_low", "sck_high", "sleep_10ms", "sck_low">>
    /\ pc' = "read"
    /\ raised' = "none"
    /\ returned' = None
    /\ swm' = None
    /\ zero_offset' = [c \in ADCs |-> Rat(0, 1)]
    /\ weight_multiple' = [c \in ADCs |-> Rat(1, 1)]
    /\ UNCHANGED <<cfg_vars, ready, current_raw_read, raw_reads, reads, measurement,
                   measurement_from_zero, weight, args, zero_vars,
                   readings_to_average, frame_no, poll_i, bit_no, trailer_no,
                   result, pulse_log, slow, len0, ever_ready, reduced, warned, poll_in, samples>>

\* reset called: self.power_down(), then self.power_up() up to its _read
reset_call ==
    /\ pc = "idle"
    /\ op = "construct"
    /\ op' = "reset"
    /\ sck' = Some(0)
    /\ events' = <<"sck_low", "sck_high", "sleep_10ms", "sck_low">>
    /\ pc' = "read"
    /\ raised' = "none"
    /\ returned' = None
    /\ swm' = None
    /\ UNCHANGED <<cfg_vars, adc_vars, args, zero_vars, readings_to_average,
                   frame_no, poll_i, bit_no, trailer_no, result, pulse_log, slow,
                   len0, ever_ready, reduced, warned, poll_in, samples>>

\* fault variant of power_up_result: True whatever _read returned
power_up_result_true == TRUE

\* power_up: "if result: return True else: return False" (and the same in
\* reset, on what power_up returned)
power_up_result == result = Some(TRUE)

\* power_up after its _read: sleep(0.4), and the result is returned (by
\* power_up, or through it by reset)
power_up_return ==
    /\ pc = "read_done"
    /\ op \in {"power_up", "reset"}
    /\ events' = Append(events, "sleep_400ms")
    /\ returned' = Some(power_up_result)
    /\ pc' = "idle"
    /\ UNCHANGED <<cfg_vars, adc_vars, args, raised, swm, zero_vars, op,
                   readings_to_average, frame_no, poll_i, bit_no, trailer_no, sck,
                   result, pulse_log, slow, len0, ever_ready, reduced, warned, poll_in, samples>>

----------------------------------------------------------------------------
(* Spec: the construction read, then batches, rejected calls and the power   *)
(* operations, every frame bit by bit                                        *)

Next ==
    \/ read_begin
    \/ prepare_to_read_iter
    \/ read_after_prepare
    \/ read_data_pulse
    \/ read_finish
    \/ write_channel_gain_pulse
    \/ construct_return
    \/ read_raw_call
    \/ readings_rejected
    \/ read_raw_next
    \/ read_raw_interrupted
    \/ read_raw_reduce
    \/ power_down
    \/ power_up_call
    \/ reset_call
    \/ power_up_return

Spec == Init /\ [][Next]_vars

----------------------------------------------------------------------------
----------------------------------------------------------------------------
(* SpecDecode: the construction read of a two-ADC driver, taken up after its  *)
(* 24 data pulses, with the accumulators drawn from DecodeInputs             *)

DecodeInputs ==
    (0..DecodeSpan)
        \cup ((Pow2(DataBits - 1) - DecodeSpan - 1)..(Pow2(DataBits - 1) + DecodeSpan))
        \cup ((Pow2(DataBits) - 1 - DecodeSpan)..(Pow2(DataBits) - 1))
        \cup {Pow2(DataBits - 2)}

InitDecode ==
    /\ all_or_nothing = FALSE
    /\ channel_A_gain = 128
    /\ channel_select = "A"
    /\ dout_pins = <<5, 6>>
    /\ sck_pin = 4
    /\ ArgsOfConfig
    /\ CallIdle
    /\ warned = FALSE
    /\ ready = [c \in ADCs |-> TRUE]
    /\ current_raw_read \in [ADCs -> DecodeInputs]
    /\ poll_in = [c \in ADCs |-> "not_read"]
    /\ samples = [c \in ADCs |-> bits_of(current_raw_read[c], DataBits)]
    /\ raw_reads = [c \in ADCs |-> <<>>]
    /\ reads = [c \in ADCs |-> <<>>]
    /\ measurement = [c \in ADCs |-> None]
    /\ measurement_from_zero = [c \in ADCs |-> None]
    /\ weight = [c \in ADCs |-> None]
    /\ zero_offset = [c \in ADCs |-> Rat(0, 1)]
    /\ weight_multiple = [c \in ADCs |-> Rat(1, 1)]
    /\ op = "construct"
    /\ pc = "finish"
    /\ readings_to_average = 0
    /\ frame_no = 0
    /\ poll_i = 0
    /\ bit_no = 0
    /\ trailer_no = 0
    /\ sck = Some(0)
    /\ result = None
    /\ pulse_log = [k \in 1..DataBits |-> "data"]
    /\ events = Append(gpio_events(dout_pins), "read")
    /\ slow = FALSE
    /\ len0 = [c \in ADCs |-> 0]
    /\ ever_ready = [c \in ADCs |-> TRUE]
    /\ reduced = [c \in ADCs |-> FALSE]

NextDecode ==
    \/ read_finish
    \/ write_channel_gain_pulse
    \/ construct_return

SpecDecode == InitDecode /\ [][NextDecode]_vars

----------------------------------------------------------------------------
(* SpecReduce: read_raw(ReduceLen) of a one-ADC driver, taken up after its    *)
(* last frame (every frame found the ADC ready and completed), with the      *)
(* decoded reads drawn from ReduceValues                                     *)

\* a raw value that decodes to the read r (0x7FFFFF for an invalid frame)
raw_of(r) ==
    IF r = None THEN RawMax
    ELSE IF r[1] < 0 THEN r[1] + Pow2(DataBits) ELSE r[1]

InitReduce ==
    /\ all_or_nothing = FALSE
    /\ channel_A_gain = 128
    /\ channel_select = "A"
    /\ dout_pins = <<5>>
    /\ sck_pin = 4
    /\ ArgsOfConfig
    /\ CallIdle
    /\ warned = FALSE
    /\ NoInput
    /\ ready = [c \in ADCs |-> TRUE]
    /\ reads \in [ADCs -> [1..ReduceLen -> ReduceValues]]
    /\ raw_reads = [c \in ADCs |-> [k \in 1..ReduceLen |-> raw_of(reads[c][k])]]
    /\ current_raw_read = [c \in ADCs |-> raw_reads[c][ReduceLen]]
    /\ measurement = [c \in ADCs |-> None]
    /\ measurement_from_zero = [c \in ADCs |-> None]
    /\ weight = [c \in ADCs |-> None]
    /\ zero_offset = [c \in ADCs |-> Rat(0, 1)]
    /\ weight_multiple = [c \in ADCs |-> Rat(1, 1)]
    /\ op = "read_raw"
    /\ pc = "reduce"
    /\ readings_to_average = ReduceLen
    /\ frame_no = ReduceLen
    /\ poll_i = 0
    /\ bit_no = 0
    /\ trailer_no = 0
    /\ sck = Some(0)
    /\ result = Some(TRUE)
    /\ pulse_log = [k \in 1..(DataBits + 1) |-> IF k <= DataBits THEN "data" ELSE "trailer"]
    /\ slow = FALSE
    /\ len0 = [c \in ADCs |-> ReduceLen - 1]
    /\ ever_ready = [c \in ADCs |-> TRUE]
    /\ reduced = [c \in ADCs |-> FALSE]
    /\ events = [k \in 1..ReduceLen |-> "read"]

NextReduce == read_raw_reduce

SpecReduce == InitReduce /\ [][NextReduce]_vars

----------------------------------------------------------------------------
(* SpecZero: one call of zero on a constructed driver, then one call of       *)
(* read_weight. The frames of a batch are taken as one step: read_raw_frames *)
(* leaves in every ADC what _init_set_of_reads and the calls of _read can    *)
(* leave, drawn from BatchOutcomes.                                          *)

\* the reads a batch can leave in an ADC that its last frame found ready: a
\* spread around 101, a constant 101, invalid frames only, a spread around 0
BatchReads ==
    {<<Some(100), Some(101), Some(102)>>, <<Some(101), Some(101), Some(101)>>,
     <<None, None, None>>, <<Some(-2), Some(0), Some(2)>>}

\* what a batch can leave in an ADC: ready with the reads of every frame, or
\* never ready and without a read
BatchOutcomes ==
    {[ready |-> TRUE, reads |-> b] : b \in BatchReads}
        \cup {[ready |-> FALSE, reads |-> <<>>]}

\* the retry_limit arguments of zero
RetryLimits == {0, 1, 2}

\* the dout_pins arguments of the drivers of SpecZero
ZeroPinArgs == {BareArg(IntArg(5)), ListArg(<<IntArg(5), IntArg(6)>>)}

\* a zero_offset other than the 0 of ADC.__init__, as ADC.zero(7) leaves it
PriorOffsets == {Rat(0, 1), Rat(7, 1)}

\* read_raw up to its reduction: _init_set_of_reads of every ADC, then
\* "for _ in range(readings_to_average): self._read()" with the outcome o (no
\* slow pulse; all_or_nothing off)
read_raw_frames(o) ==
    /\ \E n \in {Len(b) : b \in BatchReads} :
          /\ readings_to_average' = n
          /\ frame_no' = n
          /\ events' = (IF pc = "idle" THEN <<>> ELSE events) \o [k \in 1..n |-> "read"]
    /\ reads' = [c \in ADCs |-> o[c].reads]
    /\ raw_reads' = [c \in ADCs |-> [k \in DOMAIN o[c].reads |-> raw_of(o[c].reads[k])]]
    /\ ready' = [c \in ADCs |-> o[c].ready]
    /\ current_raw_read' =
          [c \in ADCs |-> IF o[c].ready THEN raw_of(o[c].reads[Len(o[c].reads)]) ELSE 0]
    /\ measurement' = [c \in ADCs |-> None]
    /\ measurement_from_zero' = [c \in ADCs |-> None]
    /\ pc' = "reduce"
    /\ poll_i' = 0
    /\ bit_no' = 0
    /\ trailer_no' = 0
    /\ sck' = Some(0)
    /\ result' = Some(TRUE)
    /\ pulse_log' = [k \in 1..(DataBits + num_pulses) |->
                        IF k <= DataBits THEN "data" ELSE "trailer"]
    /\ slow' = FALSE
    /\ len0' = [c \in ADCs |-> IF o[c].ready THEN Len(o[c].reads) - 1 ELSE 0]
    /\ ever_ready' = [c \in ADCs |-> o[c].ready]
    /\ reduced' = [c \in ADCs |-> FALSE]
    /\ warned' = FALSE
    /\ UNCHANGED <<poll_in, samples>>

\* zero called (first call made on the driver): "readings = None", and the
\* loop "for _ in range(retry_limit)" is entered or skipped
zero_call ==
    /\ pc = "idle"
    /\ op = "construct"
    /\ \E r \in RetryLimits :
          /\ retry_limit' = r
          /\ pc' = IF r > 0 THEN "zero_loop" ELSE "zero_check"
    /\ op' = "zero"
    /\ zero_try' = 0
    /\ readings' = None
    /\ raised' = "none"
    /\ zero_raised' = "none"
    /\ returned' = None
    /\ offset0' = zero_offset
    /\ attempts' = <<>>
    /\ events' = <<>>
    /\ UNCHANGED <<cfg_vars, adc_vars, args, swm, readings_to_average, frame_no, poll_i,
                   bit_no, trailer_no, sck, result, pulse_log, slow, len0,
                   ever_ready, reduced, warned, poll_in, samples>>

\* zero: "readings_new = self.read_raw(readings_to_average)", up to the reduction
zero_read_raw ==
    /\ pc = "zero_loop"
    /\ \E o \in [ADCs -> BatchOutcomes] : read_raw_frames(o)
    /\ UNCHANGED <<cfg_vars, call_vars, weight, zero_offset, weight_multiple, op>>

\* what the read_raw just returned has left in every ADC
attempt_record ==
    [c \in ADCs |-> [ready |-> ready[c],
                     measurement |-> measurement[c],
                     measurement_from_zero |-> measurement_from_zero[c]]]

\* fault variant of merge_readings: a value already merged is kept
merge_readings_first(new, old) ==
    [c \in DOMAIN new |-> IF old[c] # None THEN old[c] ELSE new[c]]

\* zero: "[r_new if r_new is not None else r_old for r_new, r_old in
\* zip(readings_new, readings)]"
merge_readings(new, old) ==
    [c \in DOMAIN new |-> IF new[c] # None THEN new[c] ELSE old[c]]

\* fault variant of none_in: true only if every reading is None
none_in_all(r) == \A c \in DOMAIN r : r[c] = None

\* zero: "None in readings", for a list of readings
none_in(r) == \E c \in DOMAIN r : r[c] = None

\* zero, the rest of one iteration of the loop: the merge, then "if None not in
\* readings: break". For a driver made from a bare int pin read_raw returned
\* adc_measurements[0], and "None not in" a float or None raises TypeError.
zero_merge ==
    /\ pc = "zero_merge"
    /\ attempts' = Append(attempts, attempt_record)
    /\ zero_try' = zero_try + 1
    /\ IF single_adc
       THEN /\ readings' = None
            /\ raised' = "TypeError"
            /\ pc' = "idle"
       ELSE LET merged == IF readings = None THEN adc_measurements
                          ELSE merge_readings(adc_measurements, readings[1])
            IN  /\ readings' = Some(merged)
                /\ raised' = raised
                /\ pc' = IF ~none_in(merged) \/ zero_try + 1 >= retry_limit
                         THEN "zero_check"
                         ELSE "zero_loop"
    /\ zero_raised' = raised'
    /\ UNCHANGED <<cfg_vars, adc_vars, args, returned, swm, retry_limit, offset0, op,
                   readings_to_average, frame_no, poll_i, bit_no, trailer_no,
                   sck, result, obs_vars>>

\* "if self.measurement:" of ADC.zero_from_last_measurement
truthy(m) == m # None /\ m[1][1] # 0

\* the ADCs at which "adc.zero_from_last_measurement()" raises ValueError
zero_bad == {c \in ADCs : ready[c] /\ ~truthy(measurement[c])}

\* fault variant of zero_from_last_measurements: measurement_from_zero is stored
zero_from_zero_measurements ==
    [c \in ADCs |-> IF ready[c] /\ truthy(measurement[c])
                       /\ (\A d \in zero_bad : c < d)
                    THEN measurement_from_zero[c][1]
                    ELSE zero_offset[c]]

\* zero: "for adc in self._adcs: if adc._ready: adc.zero_from_last_measurement()",
\* the zero_offset of every ADC when the loop ends or is left by the ValueError
zero_from_last_measurements ==
    [c \in ADCs |-> IF ready[c] /\ truthy(measurement[c])
                       /\ (\A d \in zero_bad : c < d)
                    THEN measurement[c][1]
                    ELSE zero_offset[c]]

\* zero after its loop: "if None in readings: raise Exception", then the zeroing
\* of the ready ADCs ("None in None", if the loop never ran, raises TypeError)
zero_finish ==
    /\ pc = "zero_check"
    /\ IF readings = None
       THEN raised' = "TypeError" /\ UNCHANGED zero_offset
       ELSE IF none_in(readings[1])
            THEN raised' = "Exception" /\ UNCHANGED zero_offset
            ELSE /\ zero_offset' = zero_from_last_measurements
                 /\ raised' = IF zero_bad = {} THEN "none" ELSE "ValueError"
    /\ zero_raised' = raised'
    /\ pc' = "idle"
    /\ UNCHANGED <<cfg_vars, ready, current_raw_read, raw_reads, reads, measurement,
                   measurement_from_zero, weight, weight_multiple,
                   args, returned, swm, retry_limit, zero_try, readings, offset0, attempts,
                   op, readings_to_average, frame_no, poll_i, bit_no, trailer_no,
                   sck, result, obs_vars>>

\* read_weight(use_prev_read=False) called after zero: "self.read_raw(...)", up
\* to the reduction; the weights are returned after it
read_weight_call ==
    /\ pc = "idle"
    /\ op = "zero"
    /\ op' = "read_weight"
    /\ \E o \in [ADCs -> BatchOutcomes] : read_raw_frames(o)
    /\ raised' = "none"
    /\ returned' = None
    /\ UNCHANGED <<cfg_vars, args, swm, zero_vars, weight, zero_offset, weight_multiple>>

\* the values read_raw returns, in the place of the weights (fault variant)
adc_weights_from_zero == [c \in ADCs |-> measurement_from_zero[c]]

\* the value read_weight returned (before the single-ADC unwrapping)
adc_weights == [c \in ADCs |-> weight[c]]

InitZero ==
    /\ all_or_nothing = FALSE
    /\ channel_A_gain = 128
    /\ channel_select = "A"
    /\ sck_pin = 4
    /\ \E a \in ZeroPinArgs :
          /\ args = [dout_pins |-> a, sck_pin |-> IntArg(sck_pin),
                     channel_A_gain |-> channel_A_gain,
                     channel_select |-> channel_select,
                     all_or_nothing |-> all_or_nothing]
          /\ single_adc = (a.form = "bare")
          /\ dout_pins = convert_to_list(a)[1]
    /\ gpio_mode = init_gpio(sck_pin, dout_pins)
    /\ ready = [c \in ADCs |-> TRUE]
    /\ current_raw_read = [c \in ADCs |-> 1]
    /\ raw_reads = [c \in ADCs |-> <<1>>]
    /\ reads = [c \in ADCs |-> <<Some(1)>>]
    /\ measurement = [c \in ADCs |-> None]
    /\ measurement_from_zero = [c \in ADCs |-> None]
    /\ weight = [c \in ADCs |-> None]
    /\ zero_offset \in [ADCs -> PriorOffsets]
    /\ weight_multiple = [c \in ADCs |-> Rat(1, 1)]
    /\ op = "construct"
    /\ pc = "idle"
    /\ readings_to_average = 0
    /\ frame_no = 0
    /\ poll_i = 0
    /\ bit_no = 0
    /\ trailer_no = 0
    /\ sck = Some(0)
    /\ result = Some(TRUE)
    /\ pulse_log = [k \in 1..(DataBits + 1) |-> IF k <= DataBits THEN "data" ELSE "trailer"]
    /\ slow = FALSE
    /\ len0 = [c \in ADCs |-> 0]
    /\ ever_ready = [c \in ADCs |-> TRUE]
    /\ reduced = [c \in ADCs |-> FALSE]
    /\ warned = FALSE
    /\ NoInput
    /\ raised = "none"
    /\ retry_limit = 0
    /\ zero_try = 0
    /\ readings = None
    /\ offset0 = zero_offset
    /\ attempts = <<>>
    /\ zero_raised = "none"
    /\ returned = None
    /\ swm = None
    /\ events = gpio_events(dout_pins) \o <<"read", "sleep_400ms">>

NextZero ==
    \/ zero_call
    \/ zero_read_raw
    \/ read_raw_reduce
    \/ zero_merge
    \/ zero_finish
    \/ read_weight_call

SpecZero == InitZero /\ [][NextZero]_vars

----------------------------------------------------------------------------
----------------------------------------------------------------------------
(* SpecCalls: the calls a program makes on a constructed two-ADC driver in    *)
(* any order: read_raw and read_weight (their frames taken as one step, as   *)
(* in SpecZero), read_weight(use_prev_read=True), calls with a               *)
(* readings_to_average out of range, set_weight_multiples, and, before the   *)
(* first batch, power_down, power_up and reset with their frame bit by bit   *)

\* the arguments of set_weight_multiples: weight_multiples (a list or one bare
\* value), adc_indices and dout_pins (None, a list or one bare value)
SwmArg(w, i, p) == [weight_multiples |-> w, adc_indices |-> i, dout_pins |-> p]
SwmArgs ==
    {SwmArg(ListArg(<<Rat(2, 1), Rat(4, 1)>>), None, None),
     SwmArg(BareArg(Rat(2, 1)), None, None),
     SwmArg(ListArg(<<Rat(2, 1)>>), Some(ListArg(<<IntArg(1)>>)), None),
     SwmArg(ListArg(<<Rat(2, 1), Rat(4, 1)>>), Some(ListArg(<<IntArg(1), IntArg(0)>>)), None),
     SwmArg(ListArg(<<Rat(2, 1)>>), None, Some(BareArg(IntArg(6)))),
     SwmArg(ListArg(<<Rat(2, 1), Rat(4, 1)>>), None, Some(ListArg(<<IntArg(6), IntArg(5)>>))),
     SwmArg(ListArg(<<Rat(4, 1)>>), Some(ListArg(<<IntArg(1)>>)), Some(ListArg(<<IntArg(5)>>))),
     SwmArg(ListArg(<<Rat(2, 1)>>), None, Some(ListArg(<<IntArg(6), BoolArg(1)>>)))}

\* utils.convert_to_list(input, _type=None): the list itself, or the list of
\* the one bare value
convert_to_list_untyped(input) == input.items

\* set_weight_multiples: convert_to_list(..., _type=int) of the selector in use
\* (dout_pins if given, else adc_indices, else the default
\* list(range(len(weight_multiples))))
swm_selector(a) ==
    IF a.dout_pins # None THEN convert_to_list(a.dout_pins[1])
    ELSE IF a.adc_indices # None THEN convert_to_list(a.adc_indices[1])
    ELSE Some([k \in 1..Len(convert_to_list_untyped(a.weight_multiples)) |-> k - 1])

\* set_weight_multiples: the ADCs of the list "adcs": those whose _dout_pin is in
\* dout_pins, or whose position (from 0) is in adc_indices
swm_adcs(a) ==
    {c \in ADCs :
        \E k \in DOMAIN swm_selector(a)[1] :
            swm_selector(a)[1][k] = (IF a.dout_pins # None THEN dout_pins[c] ELSE c - 1)}

\* the position (from 1) of ADC c in the list "adcs", which keeps the order of
\* self._adcs
swm_rank(a, c) == Cardinality({d \in swm_adcs(a) : d <= c})

\* fault variant of swm_result: the first multiple is given to every ADC
swm_result_all(a) ==
    [c \in ADCs |-> convert_to_list_untyped(a.weight_multiples)[1]]

\* set_weight_multiples: "for adc, weight_multiple in zip(adcs, weight_multiples):
\* adc._weight_multiple = weight_multiple", the weight_multiple of every ADC after it
swm_result(a) ==
    [c \in ADCs |->
        IF c \in swm_adcs(a)
              /\ swm_rank(a, c) <= Len(convert_to_list_untyped(a.weight_multiples))
        THEN convert_to_list_untyped(a.weight_multiples)[swm_rank(a, c)]
        ELSE weight_multiple[c]]

\* set_weight_multiples called: a selector that convert_to_list turns into None
\* makes "in dout_pins" / "in adc_indices" raise TypeError
set_weight_multiples ==
    /\ pc = "idle"
    /\ \E a \in SwmArgs :
          /\ swm' = Some(a)
          /\ IF swm_selector(a) = None
             THEN raised' = "TypeError" /\ UNCHANGED weight_multiple
             ELSE raised' = "none" /\ weight_multiple' = swm_result(a)
    /\ op' = "set_weight_multiples"
    /\ returned' = None
    /\ events' = <<>>
    /\ UNCHANGED <<cfg_vars, ready, current_raw_read, raw_reads, reads, measurement,
                   measurement_from_zero, weight, zero_offset, args, zero_vars, pc,
                   readings_to_average, frame_no, poll_i, bit_no, trailer_no, sck,
                   result, pulse_log, slow, len0, ever_ready, reduced, warned, poll_in, samples>>

\* what a batch of SpecCalls can leave in an ADC: the spread around 101 (reduced
\* to its mean), the constant 101 (reduced to its median), or never ready
CallOutcomes ==
    {[ready |-> TRUE, reads |-> <<Some(100), Some(101), Some(102)>>],
     [ready |-> TRUE, reads |-> <<Some(101), Some(101), Some(101)>>],
     [ready |-> FALSE, reads |-> <<>>]}

\* read_raw, or read_weight(use_prev_read=False) which calls it, with a
\* readings_to_average in range, up to the reduction
read_batch_call ==
    /\ pc = "idle"
    /\ \E o \in [ADCs -> CallOutcomes] : read_raw_frames(o)
    /\ \E f \in {"read_raw", "read_weight"} : op' = f
    /\ raised' = "none"
    /\ returned' = None
    /\ swm' = None
    /\ UNCHANGED <<cfg_vars, args, zero_vars, weight, zero_offset, weight_multiple>>

\* read_weight(use_prev_read=True) with a readings_to_average in range: the
\* weights are returned as they are
read_weight_prev ==
    /\ pc = "idle"
    /\ op' = "read_weight"
    /\ returned' = Some(unwrap(adc_weights))
    /\ raised' = "none"
    /\ events' = <<>>
    /\ swm' = None
    /\ UNCHANGED <<cfg_vars, adc_vars, args, zero_vars, pc, readings_to_average,
                   frame_no, poll_i, bit_no, trailer_no, sck, result, pulse_log,
                   slow, len0, ever_ready, reduced, warned, poll_in, samples>>

\* the zero_offset and weight_multiple of the two ADCs before the calls: those
\* of ADC.__init__, or those ADC.zero(7) and ADC.set_weight_multiple(2) leave
\* in the second ADC
PriorCalibrations ==
    {[zero_offset |-> <<Rat(0, 1), Rat(0, 1)>>, weight_multiple |-> <<Rat(1, 1), Rat(1, 1)>>],
     [zero_offset |-> <<Rat(0, 1), Rat(7, 1)>>, weight_multiple |-> <<Rat(1, 1), Rat(2, 1)>>]}

InitCalls ==
    /\ all_or_nothing = FALSE
    /\ channel_A_gain = 128
    /\ channel_select = "A"
    /\ dout_pins = <<5, 6>>
    /\ sck_pin = 4
    /\ ArgsOfConfig
    /\ CallIdle
    /\ ready = [c \in ADCs |-> TRUE]
    /\ current_raw_read = [c \in ADCs |-> 1]
    /\ raw_reads = [c \in ADCs |-> <<1>>]
    /\ reads = [c \in ADCs |-> <<Some(1)>>]
    /\ measurement = [c \in ADCs |-> None]
    /\ measurement_from_zero = [c \in ADCs |-> None]
    /\ weight = [c \in ADCs |-> None]
    /\ \E p \in PriorCalibrations :
          /\ zero_offset = p.zero_offset
          /\ weight_multiple = p.weight_multiple
    /\ op = "construct"
    /\ pc = "idle"
    /\ readings_to_average = 0
    /\ frame_no = 0
    /\ poll_i = 0
    /\ bit_no = 0
    /\ trailer_no = 0
    /\ sck = Some(0)
    /\ result = Some(TRUE)
    /\ pulse_log = [k \in 1..(DataBits + 1) |-> IF k <= DataBits THEN "data" ELSE "trailer"]
    /\ slow = FALSE
    /\ len0 = [c \in ADCs |-> 0]
    /\ ever_ready = [c \in ADCs |-> TRUE]
    /\ reduced = [c \in ADCs |-> FALSE]
    /\ warned = FALSE
    /\ NoInput
    /\ events = gpio_events(dout_pins) \o <<"read", "sleep_400ms">>

NextCalls ==
    \/ read_batch_call
    \/ read_raw_reduce
    \/ read_weight_prev
    \/ readings_rejected
    \/ set_weight_multiples
    \/ power_down
    \/ power_up_call
    \/ reset_call
    \/ read_begin
    \/ prepare_to_read_iter
    \/ read_after_prepare
    \/ read_data_pulse
    \/ read_finish
    \/ write_channel_gain_pulse
    \/ power_up_return

SpecCalls == InitCalls /\ [][NextCalls]_vars

----------------------------------------------------------------------------
(* SpecConstruct: HX711.__init__ from its first line, with the arguments     *)
(* drawn from valid and invalid values, through the construction read        *)

\* the dout_pins arguments: a bare int, lists of ints (two lines, the same line
\* twice, none), a list holding a bool, a bare bool
ConstructPinArgs ==
    {BareArg(IntArg(5)), ListArg(<<IntArg(5), IntArg(6)>>),
     ListArg(<<IntArg(5), IntArg(5)>>), ListArg(<<>>),
     ListArg(<<IntArg(5), BoolArg(1)>>), BareArg(BoolArg(1))}

\* the sck_pin, channel_A_gain and channel_select arguments
ConstructSckArgs == {IntArg(4), BoolArg(0)}
ConstructGains == {128, 64, 32}
ConstructSelects == {"A", "B", "C"}

\* __init__ raises: no driver is returned
construct_raise(e) ==
    /\ raised' = e
    /\ pc' = "failed"

\* __init__, lines 52-54: all_or_nothing is stored, then the setters of
\* _dout_pins and _sck_pin store their argument or raise TypeError
init_store_pins ==
    /\ pc = "init"
    /\ all_or_nothing' = args.all_or_nothing
    /\ single_adc' = (args.dout_pins.form = "bare"
                        /\ args.dout_pins.items[1].type = "int")
    /\ IF convert_to_list(args.dout_pins) = None
       THEN construct_raise("TypeError") /\ UNCHANGED <<dout_pins, sck_pin>>
       ELSE /\ dout_pins' = convert_to_list(args.dout_pins)[1]
            /\ IF args.sck_pin.type # "int"
               THEN construct_raise("TypeError") /\ UNCHANGED sck_pin
               ELSE /\ sck_pin' = args.sck_pin.value
                    /\ pc' = "gpio"
                    /\ raised' = raised
    /\ UNCHANGED <<channel_A_gain, channel_select, gpio_mode, adc_vars, op,
                   readings_to_average, frame_no, poll_i, bit_no, trailer_no,
                   sck, result, obs_vars, args, returned, swm, retry_limit, zero_try,
                   readings, offset0, attempts, zero_raised>>

\* __init__, line 56: self._init_gpio()
init_gpio_lines ==
    /\ pc = "gpio"
    /\ gpio_mode' = init_gpio(sck_pin, dout_pins)
    /\ events' = events \o gpio_events(dout_pins)
    /\ pc' = "channel"
    /\ UNCHANGED <<all_or_nothing, channel_A_gain, channel_select, dout_pins,
                   single_adc, sck_pin, adc_vars, op, readings_to_average,
                   frame_no, poll_i, bit_no, trailer_no, sck, result, pulse_log,
                   slow, len0, ever_ready, reduced, warned, poll_in, samples, call_vars>>

\* __init__, lines 57-59: the setters of _channel_A_gain and _channel_select
\* store their argument or raise TypeError, then _init_adcs makes one ADC for
\* every entry of dout_pins
init_channel_adcs ==
    /\ pc = "channel"
    /\ IF args.channel_A_gain \notin {128, 64}
       THEN /\ construct_raise("TypeError")
            /\ UNCHANGED <<channel_A_gain, channel_select, adc_vars, len0,
                           ever_ready, reduced, offset0, poll_in, samples>>
       ELSE /\ channel_A_gain' = args.channel_A_gain
            /\ IF args.channel_select \notin {"A", "B"}
               THEN /\ construct_raise("TypeError")
                    /\ UNCHANGED <<channel_select, adc_vars, len0, ever_ready,
                                   reduced, offset0, poll_in, samples>>
               ELSE /\ channel_select' = args.channel_select
                    /\ ready' = [c \in ADCs |-> FALSE]
                    /\ current_raw_read' = [c \in ADCs |-> 0]
                    /\ raw_reads' = [c \in ADCs |-> <<>>]
                    /\ reads' = [c \in ADCs |-> <<>>]
                    /\ measurement' = [c \in ADCs |-> None]
                    /\ measurement_from_zero' = [c \in ADCs |-> None]
                    /\ weight' = [c \in ADCs |-> None]
                    /\ zero_offset' = [c \in ADCs |-> Rat(0, 1)]
                    /\ weight_multiple' = [c \in ADCs |-> Rat(1, 1)]
                    /\ len0' = [c \in ADCs |-> 0]
                    /\ ever_ready' = [c \in ADCs |-> FALSE]
                    /\ reduced' = [c \in ADCs |-> FALSE]
                    /\ poll_in' = [c \in ADCs |-> "not_read"]
                    /\ samples' = [c \in ADCs |-> <<>>]
                    /\ offset0' = [c \in ADCs |-> Rat(0, 1)]
                    /\ pc' = "read"
                    /\ raised' = raised
    /\ UNCHANGED <<all_or_nothing, dout_pins, single_adc, sck_pin, gpio_mode, op,
                   readings_to_average, frame_no, poll_i, bit_no, trailer_no,
                   sck, result, pulse_log, slow, warned, events, args, returned,
                   swm, retry_limit, zero_try, readings, attempts, zero_raised>>

\* __init__ has been called and has stored nothing yet: no attribute is
\* assigned (None stands for it), no GPIO line set up, no ADC made
InitConstruct ==
    /\ args \in [dout_pins : ConstructPinArgs, sck_pin : ConstructSckArgs,
                 channel_A_gain : ConstructGains, channel_select : ConstructSelects,
                 all_or_nothing : BOOLEAN]
    /\ all_or_nothing = None
    /\ channel_A_gain = None
    /\ channel_select = None
    /\ dout_pins = <<>>
    /\ single_adc = None
    /\ sck_pin = None
    /\ gpio_mode = NoSetup
    /\ ready = <<>>
    /\ current_raw_read = <<>>
    /\ raw_reads = <<>>
    /\ reads = <<>>
    /\ measurement = <<>>
    /\ measurement_from_zero = <<>>
    /\ weight = <<>>
    /\ zero_offset = <<>>
    /\ weight_multiple = <<>>
    /\ op = "construct"
    /\ pc = "init"
    /\ readings_to_average = 0
    /\ frame_no = 0
    /\ poll_i = 0
    /\ bit_no = 0
    /\ trailer_no = 0
    /\ sck = None
    /\ result = None
    /\ pulse_log = <<>>
    /\ slow = FALSE
    /\ len0 = <<>>
    /\ ever_ready = <<>>
    /\ reduced = <<>>
    /\ warned = FALSE
    /\ NoInput
    /\ raised = "none"
    /\ retry_limit = 0
    /\ zero_try = 0
    /\ readings = None
    /\ offset0 = <<>>
    /\ attempts = <<>>
    /\ zero_raised = "none"
    /\ returned = None
    /\ swm = None
    /\ events = <<>>

NextConstruct ==
    \/ init_store_pins
    \/ init_gpio_lines
    \/ init_channel_adcs
    \/ read_begin
    \/ prepare_to_read_iter
    \/ read_after_prepare
    \/ read_data_pulse
    \/ read_finish
    \/ write_channel_gain_pulse
    \/ construct_return

SpecConstruct == InitConstruct /\ [][NextConstruct]_vars

----------------------------------------------------------------------------
(* Properties *)

\* _read has returned (to __init__ or to read_raw) and the caller has not resumed
FrameDone == pc = "read_done"

\* read_raw, called directly, has returned
BatchDone == pc = "idle" /\ op = "read_raw" /\ raised = "none"

data_pulses == Cardinality({k \in DOMAIN pulse_log : pulse_log[k] = "data"})
trailer_pulses == Cardinality({k \in DOMAIN pulse_log : pulse_log[k] = "trailer"})

\* the trailer pulse count the specification gives for (select, gain)
trailer_count ==
    CASE channel_select = "A" /\ channel_A_gain = 128 -> 1
      [] channel_select = "A" /\ channel_A_gain = 64 -> 3
      [] channel_select = "B" -> 2

\* no ADC's raw_reads or reads has grown since the frame began
NoReadAdded ==
    \A c \in ADCs : Len(raw_reads[c]) = len0[c] /\ Len(reads[c]) = len0[c]

\* C1: under all_or_nothing, a frame whose readiness poll ends with an ADC not
\* ready returns False with no clock pulse issued and no read added to any ADC
\* (the ready ones included); the clock is never pulsed while an ADC is unready.
C1_AllOrNothingAbort ==
    /\ (all_or_nothing /\ pc \in {"data", "finish", "trailer"})
          => (\A c \in ADCs : ready[c])
    /\ (FrameDone /\ all_or_nothing /\ (\E c \in ADCs : ~ready[c]))
          => (result = Some(FALSE) /\ pulse_log = <<>> /\ NoReadAdded)

C1_Witness ==
    /\ FrameDone
    /\ all_or_nothing
    /\ result = Some(FALSE)
    /\ \E c, d \in ADCs : ~ready[c] /\ ready[d] /\ len0[d] > 0

\* C2: with all_or_nothing off, a frame whose pulses all completed within budget
\* has added exactly one entry to raw_reads and to reads of every ADC that was
\* ready after the poll, and none to those of an ADC that was not.
C2_BestEffortAppend ==
    (FrameDone /\ ~all_or_nothing /\ ~slow)
        => \A c \in ADCs :
              /\ Len(raw_reads[c]) = len0[c] + (IF ready[c] THEN 1 ELSE 0)
              /\ Len(reads[c]) = len0[c] + (IF ready[c] THEN 1 ELSE 0)

C2_Witness ==
    /\ FrameDone
    /\ ~all_or_nothing
    /\ ~slow
    /\ result = Some(TRUE)
    /\ \E c, d \in ADCs :
          /\ ready[c] /\ ~ready[d]
          /\ Len(raw_reads[c]) = len0[c] + 1
          /\ Len(raw_reads[c]) > Len(raw_reads[d])

\* C3: a frame in which some pulse (data or trailer) measured 60 us or more
\* returns False, whatever the readiness and the policy; a frame returns True
\* only if no pulse it issued measured 60 us or more.
C3_SlowPulseFails ==
    FrameDone => /\ (slow => result = Some(FALSE))
                 /\ (result = Some(TRUE) => ~slow)

C3_Witness ==
    /\ FrameDone
    /\ slow
    /\ result = Some(FALSE)
    /\ trailer_pulses > 0
    /\ ~all_or_nothing
    /\ \E c \in ADCs : ~ready[c]

\* C4: a frame that returned False has added no entry to any ADC's raw_reads or
\* reads.
C4_FailedFrameAddsNothing ==
    (FrameDone /\ result = Some(FALSE)) => NoReadAdded

\* C5: a frame that returned True issued exactly 24 data pulses followed by
\* exactly t trailer pulses, t = 1 for (A, 128), 3 for (A, 64), 2 for B.
C5_PulseTrain ==
    (FrameDone /\ result = Some(TRUE))
        => pulse_log = [k \in 1..(24 + trailer_count) |->
                           IF k <= 24 THEN "data" ELSE "trailer"]

C5_Witness ==
    /\ FrameDone
    /\ result = Some(TRUE)
    /\ channel_select = "A"
    /\ channel_A_gain = 64
    /\ Len(pulse_log) = 27

\* C6 as stated: every frame that issued a data pulse has issued the full
\* trailer pulse count when it returns, failed frames included.
C6_TrailerAlways ==
    (FrameDone /\ data_pulses > 0) => trailer_pulses = trailer_count

\* C6 amended: a frame stops at its first pulse of 60 us or more. A frame whose
\* pulses are all within budget issues 24 data pulses and then the full trailer
\* (also when some ADC is not ready); a frame issues fewer trailer pulses than
\* the full count only after a slow pulse, it then returns False, and if the
\* slow pulse was a data pulse it issued no trailer pulse at all.
C6_TrailerUnlessFault ==
    (FrameDone /\ data_pulses > 0)
        => /\ ~slow => (data_pulses = 24 /\ trailer_pulses = trailer_count)
           /\ trailer_pulses < trailer_count => slow
           /\ slow => /\ result = Some(FALSE)
                      /\ trailer_pulses <= trailer_count
                      /\ data_pulses < 24 => trailer_pulses = 0

C6_Witness ==
    /\ FrameDone
    /\ ~all_or_nothing
    /\ \E c \in ADCs : ~ready[c]
    /\ ~slow
    /\ data_pulses = 24
    /\ trailer_pulses = trailer_count
    /\ trailer_count = 3

\* C7: every raw value decodes as the 24-bit two's-complement reference says:
\* 0x800000, 0x7FFFFF and 0xFFFFFF to None, any other raw to raw if bit 23 is
\* clear and to raw - 2^24 if it is set; distinct valid raws decode to distinct
\* values.
C7_Decode ==
    /\ \A c \in ADCs : \A k \in DOMAIN raw_reads[c] :
          LET raw == raw_reads[c][k] IN
          reads[c][k] = IF raw \in {8388608, 8388607, 16777215} THEN None
                        ELSE IF raw < 8388608 THEN Some(raw)
                        ELSE Some(raw - 16777216)
    /\ \A c, d \in ADCs : \A k \in DOMAIN raw_reads[c] : \A j \in DOMAIN raw_reads[d] :
          (reads[c][k] # None /\ reads[d][j] # None /\ raw_reads[c][k] # raw_reads[d][j])
              => reads[c][k] # reads[d][j]

C7_Witness ==
    /\ pc = "idle"
    /\ raw_reads[1] = <<16777215>>
    /\ reads[1] = <<None>>
    /\ raw_reads[2] = <<16777214>>
    /\ reads[2] = <<Some(-2)>>

\* what _calculate_measurement makes of the reads ADC c holds
reduction_of(c) ==
    calculate_measurement([adc_record(c) EXCEPT !.ready = TRUE,
                                                 !.measurement = None,
                                                 !.measurement_from_zero = None])

\* C8: with all_or_nothing off, an ADC that was never ready in the batch, or
\* whose reads are all invalid, reports None, and it does not block the others:
\* in a frame it misses the clock is still pulsed and every ready ADC gets its
\* one read, and at the end of the batch every other ADC that has reads is
\* reduced (stated for batches whose last frame had no slow pulse).
C8_IndependentChannels ==
    /\ (FrameDone /\ ~all_or_nothing /\ result = Some(TRUE))
          => \A c, d \in ADCs :
                (~ready[c] /\ ready[d])
                    => (data_pulses = 24 /\ Len(raw_reads[d]) = len0[d] + 1)
    /\ (BatchDone /\ ~all_or_nothing /\ ~slow)
          => \A c \in ADCs :
                (~ever_ready[c] \/ valid_reads(reads[c]) = <<>>)
                    => /\ adc_measurements[c] = None
                       /\ \A d \in ADCs \ {c} : Len(reads[d]) > 0 => reduced[d]

\* C9: with all_or_nothing off, at the end of read_raw the result of every ADC
\* is the reduction of the reads of the frames in which it was ready, whichever
\* frame of the batch it missed (stated for batches whose last frame had no slow
\* pulse).
C9_ReducedFromReadyFrames ==
    (BatchDone /\ ~all_or_nothing /\ ~slow)
        => \A c \in ADCs :
              Len(reads[c]) > 0
                  => /\ reduced[c]
                     /\ measurement[c] = reduction_of(c).measurement

\* the valid reads of ADC c are at least five, all within 9..11 except one,
\* which is x
ClusterAndOutlier(c, x) ==
    LET f == valid_reads(reads[c]) IN
    /\ Len(f) >= 5
    /\ \E o \in DOMAIN f :
          /\ f[o] = x
          /\ \A k \in DOMAIN f \ {o} : f[k] \in 9..11

\* the mean of the valid reads of ADC c other than the one equal to x
MeanWithout(c, x) ==
    LET f == valid_reads(reads[c]) IN Rat(SumSeq(f) - x, Len(f) - 1)

\* C10 as stated: for tightly clustered reads plus one gross outlier, such as
\* [10, 11, 9, 10, 1000], the measurement is the mean of the other reads.
C10_OutlierExcluded ==
    BatchDone
        => \A c \in ADCs : \A x \in {100, 1000} :
              ClusterAndOutlier(c, x) => measurement[c] = Some(MeanWithout(c, x))

\* C10 amended: the outlier is excluded, and the measurement is the mean of the
\* other reads, while the deviation spread stays within the maximum of 100, as
\* for [10, 11, 9, 10, 100]; an outlier as gross as in [10, 11, 9, 10, 1000]
\* puts the spread over the maximum and the reduction fails: measurement and
\* measurement_from_zero stay None and the ADC is marked not ready.
C10_OutlierWithinCeiling ==
    BatchDone
        => \A c \in ADCs :
              /\ ClusterAndOutlier(c, 100)
                    => /\ measurement[c] = Some(MeanWithout(c, 100))
                       /\ ready[c]
              /\ ClusterAndOutlier(c, 1000)
                    => /\ measurement[c] = None
                       /\ measurement_from_zero[c] = None
                       /\ ~ready[c]

C10_Witness ==
    /\ BatchDone
    /\ reads[1] = <<Some(10), Some(11), Some(9), Some(10), Some(100)>>
    /\ measurement[1] = Some(<<10, 1>>)

\* C11: a reduction whose reads are empty, or all invalid, returns False and
\* leaves measurement None; one whose reads hold exactly one valid value v
\* returns True with measurement v.
C11_EmptyOrSingle ==
    BatchDone
        => \A c \in ADCs :
              reduced[c]
                  => LET f == valid_reads(reads[c]) IN
                     /\ Len(f) = 0 => /\ ~calculate_measurement_returns(adc_record(c))
                                      /\ measurement[c] = None
                     /\ Len(f) = 1 => /\ calculate_measurement_returns(adc_record(c))
                                      /\ measurement[c] = Some(<<f[1], 1>>)

\* an ADC reduced with no read at all, next to one reduced from a single read
C11_Witness ==
    /\ BatchDone
    /\ \E c \in ADCs : reduced[c] /\ reads[c] = <<>> /\ measurement[c] = None
    /\ \E c \in ADCs :
          reduced[c] /\ reads[c] = <<Some(1)>> /\ measurement[c] = Some(<<1, 1>>)

\* C12: every reduction that returned True has set measurement_from_zero to
\* measurement - zero_offset and weight to measurement_from_zero /
\* weight_multiple, and after a batch the measurement of an ADC is None exactly
\* when its measurement_from_zero, the value read_raw reports, is None.
C12_SuccessSetsDerived ==
    BatchDone
        => \A c \in ADCs :
              /\ (reduced[c] /\ calculate_measurement_returns(adc_record(c)))
                    => /\ measurement[c] # None
                       /\ measurement_from_zero[c]
                             = Some(RatSub(measurement[c][1], zero_offset[c]))
                       /\ weight[c]
                             = Some(RatDiv(RatSub(measurement[c][1], zero_offset[c]),
                                           weight_multiple[c]))
              /\ (measurement[c] = None) <=> (adc_measurements[c] = None)

\* the valid reads of ADC c are two or more and the sample standard deviation of
\* their absolute deviations from the median is over 100: with e the doubled
\* deviations, (n*sum(e^2) - sum(e)^2) / (4*n*(n-1)) > 100^2
DeviationsOverCeiling(c) ==
    LET f == valid_reads(reads[c])
        n == Len(f)
        e == [k \in 1..n |-> Abs((2 * f[k]) - median2(f))]
        sum1 == SumSeq(e)
        sum2 == SumSeq([k \in 1..n |-> e[k] * e[k]])
    IN  /\ n >= 2
        /\ (n * sum2) - (sum1 * sum1) > 4 * n * (n - 1) * 100 * 100

\* C13: a reduction whose deviations from the median have a standard deviation
\* over 100 fails: it returns False, the ADC is marked not ready, measurement
\* and measurement_from_zero stay None (no mean is produced) and read_raw
\* reports None for the ADC.
C13_NoisyChannelFails ==
    BatchDone
        => \A c \in ADCs :
              (reduced[c] /\ DeviationsOverCeiling(c))
                  => /\ ~calculate_measurement_returns(adc_record(c))
                     /\ ~ready[c]
                     /\ measurement[c] = None
                     /\ measurement_from_zero[c] = None
                     /\ adc_measurements[c] = None

\* four reads within 9..11 and one invalid frame, against one read of 1000
C13_Witness ==
    /\ BatchDone
    /\ reduced[1]
    /\ reads[1] = <<Some(1000), Some(9), None, Some(11), Some(10)>>
    /\ DeviationsOverCeiling(1)
    /\ ~ready[1]
    /\ measurement[1] = None

\* read_raw has returned, to zero or to the caller of read_raw or read_weight
ReadRawReturned ==
    pc = "zero_merge" \/ (pc = "idle" /\ op \in {"read_raw", "read_weight"})

\* C14: read_raw logs the warning "All ADC measurements failed" when the value
\* it reports is None for every ADC, and only then: never when some ADC
\* reports a value.
C14_TotalFailureWarned ==
    ReadRawReturned
        => (warned <=> (\A c \in ADCs : adc_measurements[c] = None))

\* a batch of zero that failed on both ADCs (one never ready, one with invalid
\* frames only) after a batch in which one of the two reported a value
C14_Witness ==
    /\ pc = "zero_merge"
    /\ warned
    /\ Len(attempts) = 1
    /\ attempts[1][1].measurement_from_zero # None
    /\ attempts[1][2].measurement_from_zero = None
    /\ ~ready[1]
    /\ ready[2] /\ valid_reads(reads[2]) = <<>>
    /\ \A c \in ADCs : adc_measurements[c] = None

\* the attempts of zero, up to the last merged one, in which ADC c reported a value
reported_in(c) ==
    {k \in DOMAIN attempts : attempts[k][c].measurement_from_zero # None}

\* C15 as stated: the merged reading of an ADC is the value of the first attempt
\* in which it reported one; a later attempt never replaces it.
C15_FirstValueWins ==
    readings # None
        => \A c \in ADCs : \A k \in reported_in(c) :
              (\A j \in reported_in(c) : k <= j)
                  => readings[1][c] = attempts[k][c].measurement_from_zero

\* C15 amended: the merged reading of an ADC is the value of the latest attempt
\* in which it reported one (a later value replaces an earlier one, a later
\* None keeps it), and None if it has reported none.
C15_LatestValueWins ==
    readings # None
        => \A c \in ADCs :
              /\ reported_in(c) = {} => readings[1][c] = None
              /\ \A k \in reported_in(c) :
                    (\A j \in reported_in(c) : j <= k)
                        => readings[1][c] = attempts[k][c].measurement_from_zero

\* ADC 1 reported in both attempts, with different values; ADC 2 only in the
\* second
C15_Witness ==
    /\ readings # None
    /\ Len(attempts) = 2
    /\ reported_in(1) = {1, 2}
    /\ reported_in(2) = {2}
    /\ attempts[1][1].measurement_from_zero # attempts[2][1].measurement_from_zero
    /\ readings[1][1] = attempts[2][1].measurement_from_zero
    /\ readings[1][2] = attempts[2][2].measurement_from_zero

\* zero has returned or raised, and nothing has been called since
ZeroDone == pc = "idle" /\ op = "zero"

\* some ADC has reported no value in any of the attempts merged so far
SomeNeverReported == \E c \in ADCs : reported_in(c) = {}

\* C16: zero calls read_raw at most retry_limit times and calls it no more once
\* every ADC has reported a value in some attempt; if an ADC has reported none
\* when zero ends, zero raises an exception and the zero_offset of every ADC is
\* what it was when zero was called.
C16_RetriesThenFail ==
    /\ op = "zero" => (zero_try <= retry_limit /\ Len(attempts) <= retry_limit)
    /\ (op = "zero" /\ pc \in {"zero_loop", "reduce", "zero_merge"})
          => SomeNeverReported
    /\ (ZeroDone /\ SomeNeverReported)
          => (raised # "none" /\ zero_offset = offset0)

\* both attempts made, ADC 1 reduced to a value in the last one and ADC 2 never
\* reported: the exception, and ADC 1 keeps the offset it had
C16_Witness ==
    /\ ZeroDone
    /\ retry_limit = 2
    /\ Len(attempts) = 2
    /\ reported_in(2) = {}
    /\ ready[1] /\ measurement[1] = Some(<<101, 1>>)
    /\ raised = "Exception"
    /\ zero_offset[1] = <<7, 1>>
    /\ zero_offset = offset0

\* C17: when zero returns normally, every ADC has reported a value and the
\* zero_offset of every ADC is the measurement (not measurement_from_zero) that
\* one of the batches of this call reduced for it, whatever its offset was
\* before.
C17_OffsetIsMeasurement ==
    (ZeroDone /\ raised = "none")
        => \A c \in ADCs :
              /\ reported_in(c) # {}
              /\ \E k \in DOMAIN attempts :
                    /\ attempts[k][c].measurement # None
                    /\ zero_offset[c] = attempts[k][c].measurement[1]

\* read_weight has returned
WeightDone == pc = "idle" /\ op = "read_weight"

\* C18: after a zero that returned normally, a read_weight whose batch reduces
\* an ADC that was ready during zero to the measurement of the zeroing batch
\* leaves measurement_from_zero 0 and weight 0 for that ADC.
C18_ZeroThenWeightIsZero ==
    (WeightDone /\ zero_raised = "none")
        => \A c \in ADCs :
              (/\ \E k \in DOMAIN attempts : attempts[k][c].ready
               /\ measurement[c] # None
               /\ measurement[c] = attempts[Len(attempts)][c].measurement)
                  => /\ measurement_from_zero[c] = Some(Rat(0, 1))
                     /\ adc_weights[c] = Some(Rat(0, 1))

\* the dout_pins argument is an empty list, or a list naming a line twice
NoDataLine == args.dout_pins.form = "list" /\ args.dout_pins.items = <<>>
DuplicateDataLine ==
    /\ args.dout_pins.form = "list"
    /\ \E i, j \in DOMAIN args.dout_pins.items :
          i # j /\ args.dout_pins.items[i] = args.dout_pins.items[j]

\* the gain or the channel argument is outside {128, 64}, {'A', 'B'}
BadGainOrSelect ==
    args.channel_A_gain \notin {128, 64} \/ args.channel_select \notin {"A", "B"}

\* __init__ has returned the driver
DriverReturned == op = "construct" /\ pc = "idle"

\* __init__ has raised
ConstructFailed == op = "construct" /\ pc = "failed"

\* C19: a construction with no data line, with a data line named twice, with a
\* gain other than 128 and 64 or with a channel other than 'A' and 'B' never
\* returns a driver, and when it ends it has raised an error.
C19_BadConfigRejected ==
    (NoDataLine \/ DuplicateDataLine \/ BadGainOrSelect)
        => /\ ~DriverReturned
           /\ pc \in {"failed", "idle"} => raised # "none"

\* C20: when a construction raises because a data line is named twice or the
\* gain or the channel is out of range, no GPIO line has been set up (neither
\* the clock line as output nor a data line as input) and no clock pulse issued.
C20_FailedConfigSetsNoLine ==
    (ConstructFailed /\ (DuplicateDataLine \/ BadGainOrSelect))
        => (gpio_mode = NoSetup /\ pulse_log = <<>> /\ sck = None)

\* the dout_pins argument is a list and every element is of type int
ListOfIntPins ==
    /\ args.dout_pins.form = "list"
    /\ \A k \in DOMAIN args.dout_pins.items : args.dout_pins.items[k].type = "int"

\* the arguments of unit_tests.test_hx711_inputs that construct a driver: a
\* list of int data pins, an int clock pin, gain 128 and channel 'A'
GoodConstructArgs ==
    /\ ListOfIntPins
    /\ args.sck_pin.type = "int"
    /\ args.channel_A_gain = 128
    /\ args.channel_select = "A"

\* an element of the dout_pins list is not of type int, or the clock pin is not
NonIntPin ==
    \/ /\ args.dout_pins.form = "list"
       /\ \E k \in DOMAIN args.dout_pins.items : args.dout_pins.items[k].type # "int"
    \/ args.sck_pin.type # "int"

TypeErrorForBoolPin ==
    /\ ConstructFailed
    /\ raised = "TypeError"
    /\ args.dout_pins = ListArg(<<IntArg(5), BoolArg(1)>>)
    /\ args.sck_pin.type = "int"

\* __init__ is inside its call of _read, or past it
ConstructionReadBegun ==
    op = "construct" /\ pc \in {"poll", "polled", "data", "finish", "trailer", "read_done", "idle"}

\* the frame just read is a full one: every data pulse and every trailer pulse
\* of the configured gain and select was issued, and _read returned True
FullFrame ==
    /\ result = Some(TRUE)
    /\ data_pulses = DataBits
    /\ trailer_pulses = num_pulses

\* C22: no frame is read before the clock line is set up as output and every
\* data line as input, and when the driver is returned __init__ has, in this
\* order, set up the lines, read exactly one frame, a full one, and slept 400 ms.
C22_ConstructionOrder ==
    /\ ConstructionReadBegun
          => /\ gpio_mode = init_gpio(sck_pin, dout_pins)
             /\ SubSeq(events, 1, Len(dout_pins) + 1) = gpio_events(dout_pins)
    /\ DriverReturned
          => /\ events = gpio_events(dout_pins) \o <<"read", "sleep_400ms">>
             /\ FullFrame

\* C22, without the frame being a full one: the order of the steps alone
ConstructionOrderAlone ==
    /\ ConstructionReadBegun
          => /\ gpio_mode = init_gpio(sck_pin, dout_pins)
             /\ SubSeq(events, 1, Len(dout_pins) + 1) = gpio_events(dout_pins)
    /\ DriverReturned
          => events = gpio_events(dout_pins) \o <<"read", "sleep_400ms">>

\* the number of calls of _read the public call has made so far
frames_read == Cardinality({k \in DOMAIN events : events[k] = "read"})

\* a step that calls read_raw or read_weight on the idle driver
ReadCalled == pc = "idle" /\ op' \in {"read_raw", "read_weight"}

\* C23: a read_raw or read_weight called with a readings_to_average below 1 or
\* above 10000 raises ValueError and reads no frame, writes no clock level and
\* changes no field of any ADC; and a read_raw reaches its reduction after
\* exactly readings_to_average calls of _read, whatever each of them returned.
C23_RejectedOrAllFrames ==
    [][/\ (ReadCalled /\ (readings_to_average' < 1 \/ readings_to_average' > 10000))
            => /\ raised' = "ValueError"
               /\ pc' = "idle"
               /\ frames_read' = 0
               /\ UNCHANGED <<adc_vars, sck, pulse_log>>
       /\ (ReadCalled /\ 1 <= readings_to_average' /\ readings_to_average' <= 10000)
            => raised' = "none" /\ pc' # "idle"
       /\ pc' = "reduce" => frames_read' = readings_to_average'
       /\ pc' \in {"poll", "polled", "data", "finish", "trailer", "read_done"} /\ op' = "read_raw"
            => frames_read' = frame_no' + 1]_vars

\* read_weight(10001) has been rejected on a driver whose last batch, of two
\* frames with the second one failed, left a read and a measurement in ADC 1
C23_Witness ==
    /\ pc = "idle"
    /\ op = "read_weight"
    /\ raised = "ValueError"
    /\ readings_to_average = ReadingsLimit + 1
    /\ frame_no = 2
    /\ result = Some(FALSE)
    /\ reads[1] # <<>>
    /\ measurement[1] # None

\* reset has returned
ResetDone == pc = "idle" /\ op = "reset"

\* C25: reset drives the clock low, then high, and sleeps 10 ms (power_down),
\* then drives the clock low and calls _read exactly once (power_up); it returns
\* True if that _read returned True and False otherwise.
C25_ResetOrderAndResult ==
    /\ (op = "reset" /\ pc # "idle")
          => /\ events = <<"sck_low", "sck_high", "sleep_10ms", "sck_low">>
                            \o (IF pc = "read" THEN <<>> ELSE <<"read">>)
             /\ returned = None
    /\ ResetDone
          => /\ events = <<"sck_low", "sck_high", "sleep_10ms", "sck_low", "read",
                           "sleep_400ms">>
             /\ returned \in {Some(TRUE), Some(FALSE)}
             /\ returned = Some(TRUE) <=> result = Some(TRUE)

\* reset has returned False: its frame was left on a slow clock pulse
C25_Witness ==
    /\ ResetDone
    /\ returned = Some(FALSE)
    /\ result = Some(FALSE)
    /\ slow
    /\ pulse_log # <<>>

\* reset has returned True after a full frame
ResetSucceeded ==
    /\ ResetDone
    /\ returned = Some(TRUE)
    /\ FullFrame

\* a step that calls set_weight_multiples
SwmStep == pc = "idle" /\ op' = "set_weight_multiples"

\* the call of set_weight_multiples with the arguments a names ADC c: by its
\* data line if dout_pins is given, else by its position (from 0) if adc_indices
\* is given, else by having a position for which there is a multiple
NamedBy(a, c) ==
    IF a.dout_pins # None
    THEN \E k \in DOMAIN a.dout_pins[1].items : a.dout_pins[1].items[k].value = dout_pins[c]
    ELSE IF a.adc_indices # None
         THEN \E k \in DOMAIN a.adc_indices[1].items : a.adc_indices[1].items[k].value = c - 1
         ELSE c <= Len(a.weight_multiples.items)

\* C24: a call of set_weight_multiples reads no frame, writes no clock level
\* and changes no field of any ADC other than the weight_multiple of the ADCs
\* its arguments name: zero_offset, raw_reads, reads, measurement,
\* measurement_from_zero and weight of every ADC and the weight_multiple of
\* every other ADC stay as they were.
C24_OnlySelectedMultiples ==
    [][SwmStep
         => /\ UNCHANGED <<zero_offset, raw_reads, reads, measurement,
                           measurement_from_zero, weight, ready, current_raw_read,
                           sck, result, pulse_log>>
            /\ events' = <<>>
            /\ pc' = "idle"
            /\ \A c \in ADCs :
                  ~NamedBy(swm'[1], c) => weight_multiple'[c] = weight_multiple[c]]_vars

\* set_weight_multiples([4], adc_indices=[1], dout_pins=[5]) has given ADC 1 the
\* multiple 4 and left ADC 2, which holds a weight, its multiple 2 and offset 7
C24_Witness ==
    /\ pc = "idle"
    /\ op = "set_weight_multiples"
    /\ swm = Some(SwmArg(ListArg(<<Rat(4, 1)>>), Some(ListArg(<<IntArg(1)>>)),
                         Some(ListArg(<<IntArg(5)>>))))
    /\ weight_multiple = <<Rat(4, 1), Rat(2, 1)>>
    /\ zero_offset[2] = Rat(7, 1)
    /\ weight[2] # None
    /\ measurement[1] # None

\* the weight of a reduction of ADC c that has just given the measurement m
weight_of(m, c) == Some(RatDiv(RatSub(m[1], zero_offset[c]), weight_multiple[c]))

FailedReductionKeepsWeight ==
    [][/\ pc' = "reduce"
            => /\ \A c \in ADCs : measurement'[c] = None /\ measurement_from_zero'[c] = None
               /\ weight' = weight
       /\ (pc = "reduce" /\ pc' # "reduce")
            => \A c \in ADCs :
                  measurement'[c] = None
                      => measurement_from_zero'[c] = None /\ weight'[c] = weight[c]]_vars

\* after a zero whose batches set a weight, the batch of read_weight has failed
\* for ADC 1 (a reduction that returned False) and its weight is still there
WeightKeptAfterFailure ==
    /\ WeightDone
    /\ reduced[1]
    /\ measurement[1] = None
    /\ weight[1] # None

\* C27: read_raw, read_weight (with a batch, from the previous batch, or
\* rejected), the frames of _read, power_down, power_up and reset leave the
\* zero_offset and the weight_multiple of every ADC unchanged: in the calls of
\* SpecCalls no step changes a zero_offset, and a weight_multiple is changed
\* only by the step of set_weight_multiples.
C27_CalibrationKept ==
    [][/\ zero_offset' = zero_offset
       /\ weight_multiple' # weight_multiple => SwmStep]_vars

\* a batch of read_raw has been reduced with a measurement for ADC 2, which
\* still has the offset 7 and the multiple 2 it had before
CalibrationKeptByBatch ==
    /\ BatchDone
    /\ reduced[2]
    /\ measurement[2] # None
    /\ zero_offset[2] = Rat(7, 1)
    /\ weight_multiple[2] = Rat(2, 1)

\* reset has returned True and ADC 2 still has offset 7 and multiple 2
C27_Witness ==
    /\ pc = "idle"
    /\ op = "reset"
    /\ returned = Some(TRUE)
    /\ zero_offset[2] = Rat(7, 1)
    /\ weight_multiple[2] = Rat(2, 1)

\* construction gives every ADC the zero_offset 0 and the weight_multiple 1
ConstructedCalibration ==
    pc \notin {"init", "gpio", "channel", "failed"}
        => \A c \in ADCs : zero_offset[c] = Rat(0, 1) /\ weight_multiple[c] = Rat(1, 1)

\* in zero and the read_weight after it no step changes a weight_multiple, and
\* a zero_offset is changed only by zero
ZeroKeepsMultiple ==
    [][/\ weight_multiple' = weight_multiple
       /\ zero_offset' # zero_offset => op = "zero" /\ op' = "zero"]_vars

\* a step of read_weight(use_prev_read=True): a call of read_weight that has
\* returned in one step
ReadWeightPrevStep ==
    /\ pc = "idle"
    /\ pc' = "idle"
    /\ op' = "read_weight"
    /\ raised' = "none"

\* C28: read_weight(use_prev_read=True) makes no call of _read and no GPIO
\* call (no clock pulse, no read of a data line, the clock line as it was),
\* changes no attribute of any ADC, and returns the stored weight of every ADC
\* in the order of construction.
C28_PrevReadNoAcquisition ==
    [][ReadWeightPrevStep
          => /\ events' = <<>>
             /\ sck' = sck
             /\ pulse_log' = pulse_log
             /\ UNCHANGED <<adc_vars, frame_no, poll_i, bit_no, trailer_no, result>>
             /\ returned' = Some(IF single_adc THEN weight[1]
                                 ELSE [c \in ADCs |-> weight[c]])]_vars

\* read_weight(use_prev_read=True) has returned the weights 101 and 47 of the
\* two ADCs, which differ from each other and, for ADC 2, from the value
\* read_raw returns
C28_Witness ==
    /\ WeightDone
    /\ raised = "none"
    /\ events = <<>>
    /\ returned = Some(<<Some(Rat(101, 1)), Some(Rat(47, 1))>>)
    /\ measurement_from_zero[2] = Some(Rat(94, 1))

\* C29: every call of _read begins by giving every ADC ready = False and the
\* accumulator 0 before the first poll, whatever the state it is called in
\* (after a completed frame, after a frame given up at the poll or at a slow
\* pulse, after a reduction that cleared ready, after a read_raw left between
\* two frames); and a read_raw begins by emptying raw_reads and reads and
\* clearing measurement and measurement_from_zero of every ADC, so that during
\* the batch an ADC never holds more reads than the batch has begun frames.
C29_FrameStartsClean ==
    [][/\ pc = "read"
            => /\ pc' = "poll"
               /\ poll_i' = 0
               /\ \A c \in ADCs : ~ready'[c] /\ current_raw_read'[c] = 0
       /\ (pc = "idle" /\ op' = "read_raw" /\ pc' = "read")
            => \A c \in ADCs :
                  /\ raw_reads'[c] = <<>> /\ reads'[c] = <<>>
                  /\ measurement'[c] = None /\ measurement_from_zero'[c] = None
                  /\ ~ready'[c] /\ current_raw_read'[c] = 0
       /\ (op' = "read_raw" /\ pc' \notin {"idle", "reduce", "read"})
            => \A c \in ADCs : Len(reads'[c]) <= frame_no' + 1]_vars

\* the second frame of a batch stands before its first poll: ADC 1 was ready in
\* the first frame, which stored a raw value other than 0, and is now not ready
\* with an empty accumulator
C29_Witness ==
    /\ pc = "poll"
    /\ poll_i = 0
    /\ op = "read_raw"
    /\ frame_no = 1
    /\ ever_ready[1]
    /\ Len(raw_reads[1]) = 1
    /\ raw_reads[1][1] # 0
    /\ ~ready[1]
    /\ current_raw_read[1] = 0

\* a read_raw has been left between two frames, with ADC 1 ready and its
\* accumulator and reads still holding the frame
InterruptedBetweenFrames ==
    /\ pc = "idle"
    /\ raised = "KeyboardInterrupt"
    /\ ready[1]
    /\ current_raw_read[1] # 0
    /\ Len(reads[1]) = 1

\* a frame of a batch begins after a frame that was given up at the poll
\* (all_or_nothing, an ADC never ready) or at a slow pulse
FrameAfterFailedFrame ==
    /\ pc = "read"
    /\ op = "read_raw"
    /\ frame_no = 1
    /\ result = Some(FALSE)

\* C30: in every state every ADC has as many reads as raw_reads, and each read
\* is the signed value of the raw value at the same position.
C30_ReadsDecodeRawReads ==
    \A c \in ADCs :
        /\ Len(raw_reads[c]) = Len(reads[c])
        /\ \A k \in 1..Len(raw_reads[c]) :
              reads[c][k] = convert_to_signed_value(raw_reads[c][k])

\* the two frames of a batch are over and have stored for ADC 1 the raw values
\* 0x7FFFFF and 1 with the reads None (an invalid frame) and 1
C30_Witness ==
    /\ op = "read_raw"
    /\ pc = "reduce"
    /\ raw_reads[1] = <<RawMax, 1>>
    /\ reads[1] = <<None, Some(1)>>

\* the construction frame has stored for ADC 1 a raw value with the sign bit
\* set and its negative read
NegativeReadStored ==
    /\ pc = "idle"
    /\ Len(raw_reads[1]) = 1
    /\ raw_reads[1][1] >= SignBit
    /\ reads[1] # <<None>>
    /\ reads[1][1][1] < 0

\* C31: in every iteration of the poll the data line of an ADC that is
\* already ready is not read and the ADC stays ready, and an ADC that is not
\* ready has its line read and is ready afterwards exactly if the level was
\* low; from the end of the poll through the 24 data pulses and the append no
\* ADC changes its readiness, whatever levels the data pulses read.
C31_ReadinessOneWay ==
    [][/\ pc = "poll"
            => \A c \in ADCs :
                  IF ready[c]
                  THEN poll_in'[c] = "not_read" /\ ready'[c]
                  ELSE /\ poll_in'[c] \in {"low", "high"}
                       /\ ready'[c] <=> poll_in'[c] = "low"
       /\ pc \in {"polled", "data", "finish"} => ready' = ready]_vars

\* the poll is in its third iteration or later: ADC 1 became ready in an
\* earlier iteration and its line was not read in the last one, in which the
\* line of ADC 2 was read high
C31_Witness ==
    /\ pc = "poll"
    /\ poll_i >= 2
    /\ ready[1]
    /\ poll_in = <<"not_read", "high">>
    /\ ~ready[2]

\* the 24 data pulses of a frame are over and ADC 1 is still ready although
\* its data line read high after the last pulse
ReadyThroughHighBits ==
    /\ pc = "finish"
    /\ ready[1]
    /\ Len(samples[1]) = DataBits
    /\ samples[1][DataBits] = 1

\* C32: the poll starts with the clock line low and its counter at 0; every
\* iteration reads the line of each ADC that is not ready and of no other, and
\* either is the last one or raises the counter by one below 20, so that the
\* poll ends after 20 iterations at most; an iteration is the last one exactly
\* if every ADC is ready after it or it is the 20th; and _read gives up after
\* the poll exactly if the policy is all_or_nothing and some ADC is not ready.
C32_PollBounded ==
    [][/\ (pc = "read" /\ pc' = "poll") => sck' = Some(0) /\ poll_i' = 0
       /\ pc = "poll"
            => /\ sck = Some(0) /\ sck' = sck
               /\ poll_i < PollLimit
               /\ ENABLED prepare_to_read_iter
               /\ \A c \in ADCs : (poll_in'[c] = "not_read") <=> ready[c]
               /\ pc' \in {"poll", "polled"}
               /\ pc' = "poll" => poll_i' = poll_i + 1 /\ poll_i' < PollLimit
               /\ pc' = "polled"
                     <=> ((\A c \in ADCs : ready'[c]) \/ poll_i = PollLimit - 1)
       /\ pc = "polled"
            => (pc' = "read_done" /\ result' = Some(FALSE))
                  <=> (all_or_nothing /\ \E c \in ADCs : ~ready[c])]_vars

\* the poll has ended after its 20th iteration with ADC 2 still not ready,
\* its line read high in that iteration
C32_Witness ==
    /\ pc = "polled"
    /\ poll_in = <<"not_read", "high">>
    /\ ready = <<TRUE, FALSE>>
    /\ sck = Some(0)

\* the poll is in its 20th iteration
LastPollIteration == pc = "poll" /\ poll_i = PollLimit - 1

\* the poll has ended with both ADCs ready, ADC 2 after ADC 1
PollEndedReady ==
    /\ pc = "polled"
    /\ poll_in = <<"not_read", "low">>
    /\ \A c \in ADCs : ready[c]

\* C33: after every data pulse that is within budget (the clock back at low)
\* every ready ADC has read its data line once more and no other ADC has read
\* its line; when the 24 pulses are over a ready ADC has read 24 levels; and
\* the value appended to its raw_reads is the number with these 24 levels as
\* binary digits, the first read the most significant, a value from 0 to
\* 2^24 - 1, while an ADC that is not ready gets nothing appended.
C33_SampledBitsAppended ==
    [][/\ pc = "data"
            => \A c \in ADCs :
                  Len(samples[c]) = (IF ready[c] THEN bit_no ELSE 0)
       /\ (pc = "data" /\ pc' \in {"data", "finish"})
            => /\ sck' = Some(0)
               /\ pulse_log' = Append(pulse_log, "data")
               /\ \A c \in ADCs :
                     IF ready[c]
                     THEN /\ Len(samples'[c]) = Len(samples[c]) + 1
                          /\ SubSeq(samples'[c], 1, Len(samples[c])) = samples[c]
                          /\ samples'[c][Len(samples'[c])] \in {0, 1}
                     ELSE samples'[c] = <<>>
       /\ pc = "finish"
            => \A c \in ADCs :
                  IF ready[c]
                  THEN /\ Len(samples[c]) = DataBits
                       /\ raw_reads'[c] = Append(raw_reads[c], value_of(samples[c]))
                       /\ value_of(samples[c]) \in 0..(Pow2(DataBits) - 1)
                  ELSE samples[c] = <<>> /\ raw_reads'[c] = raw_reads[c]]_vars

\* the append of a frame is next: ADC 1 is ready and has read 23 low levels and
\* then a high one (the word 0x000001), ADC 2 is not ready and has read none
C33_Witness ==
    /\ pc = "finish"
    /\ ready = <<TRUE, FALSE>>
    /\ samples[1] = [k \in 1..DataBits |-> IF k = DataBits THEN 1 ELSE 0]
    /\ samples[2] = <<>>
    /\ current_raw_read[1] = 1

\* the append of a frame has stored 0x7FFFFF for ADC 1: a low level first, then
\* 23 high ones
HighWordStored ==
    /\ pc = "trailer"
    /\ ready[1]
    /\ raw_reads[1][Len(raw_reads[1])] = RawMax

\* the zero_offset of ADC c is a measurement that a batch of this zero reduced
\* for it
zeroed_by_call(c) ==
    \E k \in DOMAIN attempts :
        /\ attempts[k][c].measurement # None
        /\ zero_offset[c] = attempts[k][c].measurement[1]

\* C34: when zero has returned or raised, either no ADC's zero_offset differs
\* from what it was when zero was called, or the zero_offset of every ADC is a
\* measurement of this call.
C34_ZeroAllOrNothing ==
    ZeroDone => (zero_offset = offset0 \/ \A c \in ADCs : zeroed_by_call(c))

\* zero has returned normally with ADC 1 zeroed and ADC 2, not ready in the
\* last batch, left with the offset it had
PartialZeroReturned ==
    /\ ZeroDone
    /\ Len(dout_pins) = 2
    /\ raised = "none"
    /\ zero_offset[1] # offset0[1]
    /\ zeroed_by_call(1)
    /\ ~ready[2]
    /\ zero_offset[2] = offset0[2]
    /\ ~zeroed_by_call(2)

\* zero has raised ValueError at ADC 2, whose measurement is 0, after ADC 1
\* was zeroed
PartialZeroRaised ==
    /\ ZeroDone
    /\ Len(dout_pins) = 2
    /\ raised = "ValueError"
    /\ zero_offset[1] # offset0[1]
    /\ zeroed_by_call(1)
    /\ measurement[2] = Some(Rat(0, 1))
    /\ zero_offset[2] = offset0[2]
    /\ offset0[2] = Rat(7, 1)

\* C35: when zero has ended on a driver constructed from a bare int pin and
\* a batch of the call reduced the ADC to a value, zero has returned normally
\* and the zero_offset of the ADC is that measurement.
C35_ZeroSingleSensor ==
    (/\ ZeroDone
     /\ single_adc
     /\ attempts # <<>>
     /\ attempts[Len(attempts)][1].measurement_from_zero # None)
        => /\ raised = "none"
           /\ zero_offset[1] = measurement[1][1]

\* zero on the bare-int driver has raised TypeError after its first batch,
\* which reduced the ADC to 101 (94 from the offset 7), and the offset is
\* still 7
SingleSensorZeroRaised ==
    /\ ZeroDone
    /\ single_adc
    /\ Len(attempts) = 1
    /\ measurement[1] = Some(Rat(101, 1))
    /\ measurement_from_zero[1] = Some(Rat(94, 1))
    /\ raised = "TypeError"
    /\ zero_offset[1] = Rat(7, 1)

\* C36: when zero has ended after a last batch in which every ADC was ready
\* and reduced to a value, it has returned normally, and an ADC whose
\* measurement is exactly 0 has the zero_offset 0.
C36_ZeroMeasurementIsValid ==
    (/\ ZeroDone
     /\ ~single_adc
     /\ attempts # <<>>
     /\ \A c \in ADCs : ready[c] /\ measurement_from_zero[c] # None)
        => /\ raised = "none"
           /\ \A c \in ADCs :
                 measurement[c] = Some(Rat(0, 1)) => zero_offset[c] = Rat(0, 1)

\* zero has raised ValueError at ADC 1, whose batch reduced -2, 0, 2 to the
\* measurement 0 (-7 from the offset 7), and no offset has changed
ZeroAtZeroRaised ==
    /\ ZeroDone
    /\ ~single_adc
    /\ \A c \in ADCs : ready[c] /\ measurement_from_zero[c] # None
    /\ measurement[1] = Some(Rat(0, 1))
    /\ measurement_from_zero[1] = Some(Rat(-7, 1))
    /\ raised = "ValueError"
    /\ zero_offset = offset0

\* zero has returned normally after a batch in which every ADC was ready and
\* reduced to 101
ZeroAtNonZeroReturned ==
    /\ ZeroDone
    /\ ~single_adc
    /\ \A c \in ADCs : ready[c] /\ measurement[c] = Some(Rat(101, 1))
    /\ raised = "none"
    /\ \A c \in ADCs : zero_offset[c] = Rat(101, 1)

\* the ADC that the k-th selector of the call a names: by its data line if
\* dout_pins is given, else by its position (from 0) in adc_indices, else the
\* k-th ADC
named_at(a, k) ==
    IF a.dout_pins # None
    THEN {c \in ADCs : dout_pins[c] = a.dout_pins[1].items[k].value}
    ELSE IF a.adc_indices # None
         THEN {c \in ADCs : c - 1 = a.adc_indices[1].items[k].value}
         ELSE {c \in ADCs : c = k}

\* the number of selectors of the call a
selectors_of(a) ==
    IF a.dout_pins # None THEN Len(a.dout_pins[1].items)
    ELSE IF a.adc_indices # None THEN Len(a.adc_indices[1].items)
    ELSE Len(a.weight_multiples.items)

\* C37: after a call of set_weight_multiples that returned, for every k the
\* ADC named by the k-th selector has the k-th value as its weight_multiple,
\* in whatever order the selectors are listed.
C37_PositionalPairing ==
    [][(SwmStep /\ raised' = "none")
          => \A k \in 1..selectors_of(swm'[1]) :
                k <= Len(swm'[1].weight_multiples.items)
                    => \A c \in named_at(swm'[1], k) :
                          weight_multiple'[c] = swm'[1].weight_multiples.items[k]]_vars

\* set_weight_multiples([2, 4], adc_indices=[1, 0]) has returned and has given
\* ADC 1 (index 0) the multiple 2 and ADC 2 (index 1) the multiple 4
SelectorsOutOfOrder ==
    /\ pc = "idle"
    /\ op = "set_weight_multiples"
    /\ raised = "none"
    /\ swm = Some(SwmArg(ListArg(<<Rat(2, 1), Rat(4, 1)>>),
                         Some(ListArg(<<IntArg(1), IntArg(0)>>)), None))
    /\ weight_multiple = <<Rat(2, 1), Rat(4, 1)>>

\* set_weight_multiples([2], dout_pins=6) has returned and has given ADC 2, on
\* line 6, the multiple 2
SelectorInOrder ==
    /\ pc = "idle"
    /\ op = "set_weight_multiples"
    /\ raised = "none"
    /\ swm = Some(SwmArg(ListArg(<<Rat(2, 1)>>), None, Some(BareArg(IntArg(6)))))
    /\ weight_multiple[2] = Rat(2, 1)

\* every ADC was ready when the poll of the frame in progress ended
FrameAllReady ==
    /\ pc \in {"polled", "data", "finish", "trailer"}
    /\ prepare_to_read_result

\* C38: the policy is constant, and in a frame whose poll ended with every
\* ADC ready the two policies take the same steps: after the poll neither
\* gives the frame up, and each later step (the clock pulse issued, the
\* levels read, the raw and decoded values appended to every ADC, the value
\* _read returns) is determined by the timing of the pulses and the levels of
\* the data lines alone.
C38_SameFrameWhenReady ==
    [][/\ all_or_nothing' = all_or_nothing
       /\ (FrameAllReady /\ pc = "polled")
            => /\ read_aborted(prepare_to_read_result, TRUE)
                    = read_aborted(prepare_to_read_result, FALSE)
               /\ pc' = "data"
               /\ result' = result
               /\ UNCHANGED <<adc_vars, sck, pulse_log>>
       /\ (FrameAllReady /\ pc = "data")
            => /\ pulse_log' = Append(pulse_log, "data")
               /\ UNCHANGED <<ready, raw_reads, reads>>
               /\ IF slow'
                  THEN result' = Some(FALSE) /\ pc' = "read_done"
                  ELSE /\ result' = result
                       /\ pc' = IF Len(pulse_log') = DataBits THEN "finish" ELSE "data"
                       /\ \A c \in ADCs :
                             /\ Len(samples'[c]) = Len(pulse_log')
                             /\ current_raw_read'[c] = value_of(samples'[c])
       /\ (FrameAllReady /\ pc = "finish")
            => /\ \A c \in ADCs :
                     /\ raw_reads'[c] = Append(raw_reads[c], value_of(samples[c]))
                     /\ reads'[c] = Append(reads[c],
                                           convert_to_signed_value(value_of(samples[c])))
               /\ pc' = "trailer"
               /\ UNCHANGED <<ready, result, pulse_log>>
       /\ (FrameAllReady /\ pc = "trailer")
            => /\ pulse_log' = Append(pulse_log, "trailer")
               /\ UNCHANGED <<ready, raw_reads, reads>>
               /\ IF slow'
                  THEN result' = Some(FALSE) /\ pc' = "read_done"
                  ELSE IF Len(pulse_log') = DataBits + num_pulses
                       THEN result' = Some(TRUE) /\ pc' = "read_done"
                       ELSE result' = result /\ pc' = "trailer"]_vars

\* under the all-or-nothing policy a frame of two ADCs, both ready, has ended:
\* 24 data pulses and the trailing ones, 0x000001 and 0x7FFFFF appended,
\* _read returned True
C38_Witness ==
    /\ all_or_nothing
    /\ pc = "read_done"
    /\ ready = <<TRUE, TRUE>>
    /\ Len(pulse_log) = DataBits + num_pulses
    /\ raw_reads = <<<<1>>, <<RawMax>>>>
    /\ reads = <<<<Some(1)>>, <<None>>>>
    /\ result = Some(TRUE)

\* the same frame under the other policy
BestEffortSameFrame ==
    /\ ~all_or_nothing
    /\ pc = "read_done"
    /\ ready = <<TRUE, TRUE>>
    /\ Len(pulse_log) = DataBits + num_pulses
    /\ raw_reads = <<<<1>>, <<RawMax>>>>
    /\ reads = <<<<Some(1)>>, <<None>>>>
    /\ result = Some(TRUE)

\* where the policies differ: ADC 2 is not ready after the poll; all-or-nothing
\* has returned False without a pulse
UnreadyAllOrNothing ==
    /\ all_or_nothing
    /\ pc = "read_done"
    /\ ready = <<TRUE, FALSE>>
    /\ pulse_log = <<>>
    /\ result = Some(FALSE)

\* ... and best effort has clocked the frame and returned True with a value
\* appended to ADC 1 only
UnreadyBestEffort ==
    /\ ~all_or_nothing
    /\ pc = "read_done"
    /\ ready = <<TRUE, FALSE>>
    /\ Len(pulse_log) = DataBits + num_pulses
    /\ raw_reads = <<<<1>>, <<>>>>
    /\ result = Some(TRUE)

\* the valid reads of ADC c are an odd number, three or more, and the sample
\* standard deviation of their absolute deviations from the median is not 0
\* and not over 100: with e the doubled deviations,
\* 0 < (n*sum(e^2) - sum(e)^2) / (4*n*(n-1)) <= 100^2
OddCountWithinCeiling(c) ==
    LET f == valid_reads(reads[c])
        n == Len(f)
        e == [k \in 1..n |-> Abs((2 * f[k]) - median2(f))]
        sum1 == SumSeq(e)
        sum2 == SumSeq([k \in 1..n |-> e[k] * e[k]])
    IN  /\ n >= 3
        /\ n % 2 = 1
        /\ (n * sum2) - (sum1 * sum1) > 0
        /\ ~DeviationsOverCeiling(c)

\* the rational m lies between the smallest and the largest of the values s
between_extremes(m, s) ==
    /\ sorted(s)[1] * m[2] <= m[1]
    /\ m[1] <= sorted(s)[Len(s)] * m[2]

\* C39: the reduction of an odd number (three or more) of valid reads whose
\* deviation spread is not 0 and within the maximum succeeds: the median is one
\* of the reads and is among those retained, the ADC stays ready, and the
\* measurement lies between the smallest and the largest valid read.
C39_OddCountReduces ==
    BatchDone
        => \A c \in ADCs :
              (reduced[c] /\ OddCountWithinCeiling(c))
                  => LET f == valid_reads(reads[c])
                         g == new_reads_filtered(f)
                     IN  /\ calculate_measurement_returns(adc_record(c))
                         /\ \E k \in 1..Len(f) : 2 * f[k] = median2(f)
                         /\ \E k \in 1..Len(g) : 2 * g[k] = median2(f)
                         /\ ready[c]
                         /\ measurement[c] # None
                         /\ between_extremes(measurement[c][1], f)
                         /\ measurement[c] = Some(Rat(SumSeq(g), Len(g)))

\* three valid reads among five frames: 100, 9 and 10, every one retained, the
\* measurement is their mean 119/3
C39_Witness ==
    /\ BatchDone
    /\ reduced[1]
    /\ reads[1] = <<Some(100), None, Some(9), None, Some(10)>>
    /\ OddCountWithinCeiling(1)
    /\ new_reads_filtered(valid_reads(reads[1])) = <<100, 9, 10>>
    /\ measurement[1] = Some(<<119, 3>>)

\* five valid reads of which the read of 100 is dropped and the median 10 kept
MedianKeptOutlierDropped ==
    /\ BatchDone
    /\ reduced[1]
    /\ reads[1] = <<Some(10), Some(9), Some(100), Some(11), Some(10)>>
    /\ OddCountWithinCeiling(1)
    /\ new_reads_filtered(valid_reads(reads[1])) = <<10, 9, 11, 10>>
    /\ measurement[1] = Some(<<10, 1>>)

====
